---- MODULE Spec2Model ----
(***************************************************************************)
(* State-machine model of the auto-analyzer front end: the host page       *)
(* (Index), the two cleaning components (DataQualityScanner,               *)
(* MissingValueHandler), the statistical analysis component and the        *)
(* asynchronous runs of the regression component.                          *)
(*                                                                         *)
(* A dataset is what papaparse delivers with header: true: an array of     *)
(* row objects that share one schema and whose cells are strings.  Row     *)
(* objects live in a heap and arrays hold references to them, so that an   *)
(* in-place write to a row is visible through every array that holds it.   *)
(***************************************************************************)
EXTENDS Integers, Sequences, FiniteSets, TLC

VARIABLES
    heap,           \* the row objects: heap[id] is a row (column -> cell)
    uploadedData,   \* Index.uploadedData: None or Some(array of row ids)
    cleanedData,    \* Index.cleanedData: None or Some(array of row ids)
    report,         \* DataQualityScanner.report: None or Some(QualityReport)
    isScanning,     \* DataQualityScanner.isScanning
    scanInFlight,   \* a performQualityScan call is waiting in its delays
    isProcessing,   \* MissingValueHandler.isProcessing
    toast,          \* the last toast shown (sonner)
    dedupeRun,      \* the outputs of successive duplicate fixes of one dataset
    saData,         \* StatisticalAnalysis: the data prop (an array of rows)
    saType,         \* StatisticalAnalysis: the type prop
    saEffect,       \* StatisticalAnalysis: "pending" (the effect is due), "done", "crashed"
    statistics,     \* StatisticalAnalysis.statistics
    correlations,   \* StatisticalAnalysis.correlations
    insights,       \* StatisticalAnalysis.insights
    regData,        \* RegressionAnalysis: the data prop (an array of rows)
    targetVariable, \* RegressionAnalysis.targetVariable ("" before a choice)
    features,       \* RegressionAnalysis.features, in the order of selection
    regressionType, \* RegressionAnalysis.regressionType
    result,         \* RegressionAnalysis.result: None or Some(RegressionResult)
    isAnalyzing,    \* RegressionAnalysis.isAnalyzing
    regRuns,        \* the performRegression calls waiting in their timer, oldest first
    regStarted,     \* the number of performRegression calls made so far
    cohData,        \* CohortAnalysis: the data prop (an array of rows)
    timeZone,       \* the time zone of the host: days its calendar is behind UTC at 00:00Z
    userColumn,     \* CohortAnalysis.userColumn ("" before a choice)
    dateColumn,     \* CohortAnalysis.dateColumn ("" before a choice)
    cohortData,     \* CohortAnalysis.cohortData
    cohortAnalyzing, \* CohortAnalysis.isAnalyzing
    cohortRuns,     \* the performCohortAnalysis calls waiting in their timer, oldest first
    cohortStarted,  \* the number of performCohortAnalysis calls made so far
    fitData,        \* performSimpleLinearRegression alone: the data it reads
    fitResult,      \* ... and what the call did: [state, model]
    outlierData,    \* detectOutliers alone: the data prop of the scanner
    outlierResult,  \* ... and what the call returned: None or Some(values)
    classData,      \* the column classifiers alone: the data prop they read
    classResult,  \* ... and what each said of column a: None or Some(record)
    corrData,  \* the three correlation functions alone: the data they read
    corrResult,  \* ... and what they returned for the pairs of columns: None or Some(record)
    forecastData,  \* the forecasting methods alone: the data prop they read
    forecastResult,  \* ... and the Prediction of each method: None or Some(record)
    clusterData,  \* the k-means run alone: the data prop
    numClusters,  \* ... numClusters[0], the slider
    kmPhase,  \* ... idle, iterating, stopped (out of the loop) or returned
    kmCentroids,  \* ... centroids
    kmLabels,  \* ... labels
    kmPrevLabels,  \* ... prevLabels
    kmIter,  \* ... iter, the loop variable
    clusterResult  \* ... None or Some(ClusterResult)

cleanVars == <<heap, uploadedData, cleanedData, report, isScanning,
               scanInFlight, isProcessing, toast>>
statVars == <<saData, saType, saEffect, statistics, correlations, insights>>
regVars == <<regData, targetVariable, features, regressionType, result,
             isAnalyzing, regRuns, regStarted>>
cohortVars == <<cohData, timeZone, userColumn, dateColumn, cohortData,
                cohortAnalyzing, cohortRuns, cohortStarted>>
fitVars == <<fitData, fitResult>>
outlierVars == <<outlierData, outlierResult>>
classVars == <<classData, classResult>>
corrVars == <<corrData, corrResult>>
forecastVars == <<forecastData, forecastResult>>
clusterVars == <<clusterData, numClusters, kmPhase, kmCentroids, kmLabels, kmPrevLabels, kmIter, clusterResult>>
callVars == <<fitVars, outlierVars, classVars, corrVars, forecastVars, clusterVars>>     \* the functions applied on their own
appVars == <<cleanVars, dedupeRun, statVars, regVars, cohortVars>>
vars == <<appVars, callVars>>

\* what the actions of one component leave alone
nonCleanVars == <<dedupeRun, statVars, regVars, cohortVars, callVars>>
nonDedupeVars == <<heap, uploadedData, cleanedData, report, isScanning, scanInFlight,
                   isProcessing, toast, statVars, regVars, cohortVars, callVars>>
nonStatVars == <<cleanVars, dedupeRun, regVars, cohortVars, callVars>>
nonRegVars == <<cleanVars, dedupeRun, statVars, cohortVars, callVars>>
nonCohortVars == <<cleanVars, dedupeRun, statVars, regVars, callVars>>

(***************************************************************************)
(* Bounds                                                                  *)
(***************************************************************************)
MaxRows == 4        \* rows of an uploaded one-column dataset
MaxWideRows == 2    \* rows of an uploaded two-column dataset
MaxStatRows == 2    \* rows of a dataset given to StatisticalAnalysis
MaxRegRows == 3     \* rows of a dataset given to RegressionAnalysis
MaxRegRuns == 2     \* performRegression calls in one session
MaxFitRows == 3     \* rows of a dataset given to the simple regression alone
MaxOutlierRows == 5 \* rows of a dataset given to the outlier detector alone
MaxClassRows == 5   \* rows of a dataset given to the column classifiers alone
MaxCorrRows == 3    \* rows of a dataset given to the correlation functions alone
MaxForecastRows == 8 \* rows of a dataset given to the forecasting methods alone
MaxClusterRows == 4 \* rows of a dataset given to the k-means run alone
MaxCohortRows == 3  \* rows of a dataset given to CohortAnalysis
MaxCohortRuns == 2  \* performCohortAnalysis calls in one session

(***************************************************************************)
(* Values                                                                  *)
(***************************************************************************)
None == <<>>
Some(x) == <<x>>
IsSome(o) == Len(o) = 1
Get(o) == o[1]

AllColumns == <<"a", "b">>
Cells == {"", "N/A", "1", "2", "2020-01-01"}
StatCells == {"", "1", "2", "x"}  \* the cells of the datasets given to the analysis

WideCells == {"", "N/A", "1"}     \* the cells of the two-column datasets

RowsOver(n, cells) == [{AllColumns[i] : i \in 1..n} -> cells]
DatasetsOver(n, cells, maxRows) ==
    UNION {[1..len -> RowsOver(n, cells)] : len \in 0..maxRows}
UploadChoices ==
    DatasetsOver(1, Cells, MaxRows) \cup DatasetsOver(2, WideCells, MaxWideRows)

\* Object.keys(row): the columns in insertion (header) order
Keys(row) == SelectSeq(AllColumns, LAMBDA c : c \in DOMAIN row)

\* JSON.stringify(row) for a row of string cells: the keys in insertion
\* order, each followed by its value
Stringify(row) ==
    LET ks == Keys(row)
    IN [i \in 1..(2 * Len(ks)) |->
            IF i % 2 = 1 THEN ks[(i + 1) \div 2] ELSE row[ks[i \div 2]]]

\* the rows an array of references denotes
Deref(h, ids) == [i \in 1..Len(ids) |-> h[ids[i]]]

Max(a, b) == IF a >= b THEN a ELSE b
Min(a, b) == IF a <= b THEN a ELSE b

RECURSIVE SumSeq(_)
SumSeq(s) == IF s = <<>> THEN 0 ELSE Head(s) + SumSeq(Tail(s))

RECURSIVE ProdSeq(_)
ProdSeq(s) == IF s = <<>> THEN 1 ELSE Head(s) * ProdSeq(Tail(s))

\* Math.round(num / den) for num >= 0 and den > 0: halves round up
RoundDiv(num, den) == (2 * num + den) \div (2 * den)

\* concatenation of F(s[1]), F(s[2]), ... (forEach with push)
RECURSIVE Flatten(_)
Flatten(ss) == IF ss = <<>> THEN <<>> ELSE Head(ss) \o Flatten(Tail(ss))
FlatMap(s, F(_)) == Flatten([i \in 1..Len(s) |-> F(s[i])])

\* Array.prototype.sort((a, b) => a - b)
RECURSIVE Insert(_, _)
Insert(x, s) ==
    IF s = <<>> THEN <<x>>
    ELSE IF x < Head(s) THEN <<x>> \o s
    ELSE <<Head(s)>> \o Insert(x, Tail(s))

RECURSIVE SortAsc(_)
SortAsc(s) == IF s = <<>> THEN <<>> ELSE Insert(Head(s), SortAsc(Tail(s)))

(***************************************************************************)
(* Conversions of a cell, as the JavaScript built-ins perform them on the  *)
(* strings of Cells.                                                       *)
(***************************************************************************)
\* !isNaN(Number(v)): Number("") is 0, Number("2020-01-01") is NaN
NumberOk(v) == v \in {"", "1", "2", "3", "4", "6", "100"}

\* !isNaN(parseFloat(v)): parseFloat reads the longest numeric prefix
ParseFloatOk(v) == v \in {"1", "2", "3", "4", "6", "100", "2020-01-01"}
ParseFloat(v) ==
    CASE v = "1" -> 1 [] v = "2" -> 2 [] v = "3" -> 3 [] v = "4" -> 4
      [] v = "6" -> 6 [] v = "100" -> 100 [] v = "2020-01-01" -> 2020

\* !isNaN(Date.parse(v))
DateParseOk(v) == v \in {"1", "2", "3", "4", "6", "100", "2020-01-01"}

\* val != null && val !== '' on a string cell
NonEmpty(v) == v # ""

(***************************************************************************)
(* DataQualityScanner: the scan.  D is the array of rows the component     *)
(* was given (its data prop, dereferenced).                                *)
(***************************************************************************)
Column(D, col) == [i \in 1..Len(D) |-> D[i][col]]

getNumericColumns(D, columns) ==
    SelectSeq(columns, LAMBDA col :
        LET sample == SelectSeq(Column(SubSeq(D, 1, Min(10, Len(D))), col), NonEmpty)
            numericCount == Len(SelectSeq(sample, NumberOk))
        IN  \* numericCount > sample.length * 0.8
            5 * numericCount > 4 * Len(sample))

detectOutliers_closedFences(D, column) ==
    LET parsed == SelectSeq(Column(D, column), ParseFloatOk)
        values == [i \in 1..Len(parsed) |-> ParseFloat(parsed[i])]
    IN  IF Len(values) < 4 THEN <<>>
        ELSE LET sorted == SortAsc(values)
                 q1 == sorted[(Len(sorted) \div 4) + 1]
                 q3 == sorted[((3 * Len(sorted)) \div 4) + 1]
                 iqr == q3 - q1
             IN  \* val < q1 - 1.5 * iqr || val > q3 + 1.5 * iqr
                 SelectSeq(sorted, LAMBDA val :
                     \/ 2 * val <= 2 * q1 - 3 * iqr
                     \/ 2 * val >= 2 * q3 + 3 * iqr)

\* the outlier values, in ascending order (values is sorted in place)
detectOutliers(D, column) ==
    LET parsed == SelectSeq(Column(D, column), ParseFloatOk)
        values == [i \in 1..Len(parsed) |-> ParseFloat(parsed[i])]
    IN  IF Len(values) < 4 THEN <<>>
        ELSE LET sorted == SortAsc(values)
                 q1 == sorted[(Len(sorted) \div 4) + 1]
                 q3 == sorted[((3 * Len(sorted)) \div 4) + 1]
                 iqr == q3 - q1
             IN  \* val < q1 - 1.5 * iqr || val > q3 + 1.5 * iqr
                 SelectSeq(sorted, LAMBDA val :
                     \/ 2 * val < 2 * q1 - 3 * iqr
                     \/ 2 * val > 2 * q3 + 3 * iqr)

TypeOf(val) ==
    IF NumberOk(val) THEN "number"
    ELSE IF DateParseOk(val) THEN "date"
    ELSE "string"

detectTypeInconsistencies(D, column) ==
    LET values == SelectSeq(Column(D, column), NonEmpty)
        types == [i \in 1..Len(values) |-> TypeOf(values[i])]
        typeSet == {types[i] : i \in 1..Len(types)}
        countOf(t) == Cardinality({i \in 1..Len(types) : types[i] = t})
        maxCount == CHOOSE m \in {countOf(t) : t \in typeSet} :
                        \A t \in typeSet : countOf(t) <= m
    IN  IF Len(values) = 0 THEN 0
        ELSE IF Cardinality(typeSet) > 1 THEN Len(values) - maxCount
        ELSE 0

calculateCompleteness(D) ==
    LET totalCells == Len(D) * Len(Keys(D[1]))
        missingCells == SumSeq([i \in 1..Len(D) |->
            Cardinality({c \in DOMAIN D[i] : ~NonEmpty(D[i][c])})])
    IN  RoundDiv((totalCells - missingCells) * 100, totalCells)

\* the column scores are fractions; they are summed over the common
\* denominator (the product of the columns' value counts) before rounding
calculateConsistency(D) ==
    LET columns == Keys(D[1])
        valueCount(col) == Len(SelectSeq(Column(D, col), NonEmpty))
        den(col) == IF valueCount(col) > 0 THEN valueCount(col) ELSE 1
        common == ProdSeq([i \in 1..Len(columns) |-> den(columns[i])])
        columnScore(col) ==      \* times common
            IF valueCount(col) > 0
            THEN (valueCount(col) - detectTypeInconsistencies(D, col)) * 100
                     * (common \div den(col))
            ELSE 100 * common
        consistencyScore == SumSeq([i \in 1..Len(columns) |-> columnScore(columns[i])])
    IN  RoundDiv(consistencyScore, common * Len(columns))

calculateAccuracy(D) ==
    LET numericColumns == getNumericColumns(D, Keys(D[1]))
        totalValues == SumSeq([i \in 1..Len(numericColumns) |->
            Len(SelectSeq(Column(D, numericColumns[i]), ParseFloatOk))])
        outlierCount == SumSeq([i \in 1..Len(numericColumns) |->
            Len(detectOutliers(D, numericColumns[i]))])
    IN  IF Len(numericColumns) = 0 THEN 95
        ELSE IF totalValues > 0
             THEN RoundDiv((totalValues - outlierCount) * 100, totalValues)
             ELSE 95

calculateValidity_unclamped(D) == calculateConsistency(D) + 5
calculateValidity(D) == Min(calculateConsistency(D) + 5, 100)

NoColumn == ""      \* the column of an issue that has none (duplicate)

MissingCount(D, col) == Len(SelectSeq(Column(D, col), LAMBDA v : ~NonEmpty(v)))

MissingIssues(D, col) ==
    LET missingCount == MissingCount(D, col)
    IN  IF missingCount > 0
        THEN <<[type |-> "missing",
                \* percentage > 20 ? 'high' : percentage > 10 ? 'medium' : 'low'
                severity |-> IF missingCount * 100 > 20 * Len(D) THEN "high"
                             ELSE IF missingCount * 100 > 10 * Len(D) THEN "medium"
                             ELSE "low",
                column |-> col,
                count |-> missingCount,
                autoFixable |-> TRUE]>>
        ELSE <<>>

\* data.length - new Set(data.map(row => JSON.stringify(row))).size
DuplicateCount(D) ==
    Len(D) - Cardinality({Stringify(D[i]) : i \in 1..Len(D)})

DuplicateIssues(D) ==
    LET duplicateCount == DuplicateCount(D)
    IN  IF duplicateCount > 0
        THEN <<[type |-> "duplicate",
                \* duplicateCount > data.length * 0.1
                severity |-> IF duplicateCount * 10 > Len(D) THEN "high" ELSE "medium",
                column |-> NoColumn,
                count |-> duplicateCount,
                autoFixable |-> TRUE]>>
        ELSE <<>>

OutlierIssues(D, col) ==
    LET outliers == detectOutliers(D, col)
    IN  IF Len(outliers) > 0
        THEN <<[type |-> "outlier",
                \* outliers.length > data.length * 0.05
                severity |-> IF Len(outliers) * 20 > Len(D) THEN "medium" ELSE "low",
                column |-> col,
                count |-> Len(outliers),
                autoFixable |-> FALSE]>>
        ELSE <<>>

InconsistentIssues(D, col) ==
    LET inconsistencies == detectTypeInconsistencies(D, col)
    IN  IF inconsistencies > 0
        THEN <<[type |-> "inconsistent",
                severity |-> "medium",
                column |-> col,
                count |-> inconsistencies,
                autoFixable |-> TRUE]>>
        ELSE <<>>

HasIssue(issues, t) == \E i \in 1..Len(issues) : issues[i].type = t

generateQualityReport(D) ==
    LET columns == Keys(D[1])
        issues ==
            FlatMap(columns, LAMBDA col : MissingIssues(D, col))
            \o DuplicateIssues(D)
            \o FlatMap(getNumericColumns(D, columns), LAMBDA col : OutlierIssues(D, col))
            \o FlatMap(columns, LAMBDA col : InconsistentIssues(D, col))
        suggestions ==
            (IF HasIssue(issues, "missing") THEN <<"imputation">> ELSE <<>>)
            \o (IF HasIssue(issues, "duplicate") THEN <<"remove duplicates">> ELSE <<>>)
            \o (IF HasIssue(issues, "outlier") THEN <<"investigate outliers">> ELSE <<>>)
        completeness == calculateCompleteness(D)
        consistency == calculateConsistency(D)
        accuracy == calculateAccuracy(D)
        validity == calculateValidity(D)
    IN  [overallScore |-> RoundDiv(completeness + consistency + accuracy + validity, 4),
         issues |-> issues,
         suggestions |-> suggestions,
         datasetHealth |-> [completeness |-> completeness,
                            consistency |-> consistency,
                            accuracy |-> accuracy,
                            validity |-> validity]]

(***************************************************************************)
(* DataQualityScanner: auto-fix.  A fix works on an array of references    *)
(* and on the heap: a repaired row is a new object ({...row, [col]: 'N/A'}) *)
(* and an untouched row is the same object.                                *)
(***************************************************************************)
\* row[column] == null || row[column] === ''
MissingCell(v) == v = ""

\* the same repair written in place: row[column] = 'N/A'
FixMissing_inplace(h, ids, col) ==
    LET hit == {ids[i] : i \in {j \in 1..Len(ids) : MissingCell(h[ids[j]][col])}}
    IN  [heap |-> [id \in 1..Len(h) |->
                      IF id \in hit THEN [h[id] EXCEPT ![col] = "N/A"] ELSE h[id]],
         ids |-> ids]

FixMissing(h, ids, col) ==
    LET need == {i \in 1..Len(ids) : MissingCell(h[ids[i]][col])}
        rank(i) == Cardinality({j \in need : j <= i})
        fresh == [k \in 1..Cardinality(need) |->
                     LET i == CHOOSE j \in need : rank(j) = k
                     IN  [h[ids[i]] EXCEPT ![col] = "N/A"]]
    IN  [heap |-> h \o fresh,
         ids |-> [i \in 1..Len(ids) |->
                     IF i \in need THEN Len(h) + rank(i) ELSE ids[i]]]

\* a filter that forgets a key once it has dropped a row for it
RECURSIVE DuplicateFilter_forget(_, _, _, _)
DuplicateFilter_forget(h, ids, i, seen) ==
    IF i > Len(ids) THEN <<>>
    ELSE LET key == Stringify(h[ids[i]])
         IN  IF key \in seen
             THEN DuplicateFilter_forget(h, ids, i + 1, seen \ {key})
             ELSE <<ids[i]>> \o DuplicateFilter_forget(h, ids, i + 1, seen \cup {key})

\* cleanedData.filter with the seen set, from position i on
RECURSIVE DuplicateFilter(_, _, _, _)
DuplicateFilter(h, ids, i, seen) ==
    IF i > Len(ids) THEN <<>>
    ELSE LET key == Stringify(h[ids[i]])
         IN  IF key \in seen
             THEN DuplicateFilter(h, ids, i + 1, seen)
             ELSE <<ids[i]>> \o DuplicateFilter(h, ids, i + 1, seen \cup {key})

FixDuplicates(h, ids) == DuplicateFilter(h, ids, 1, {})

FixableIssues(rep) ==
    IF IsSome(rep) THEN SelectSeq(Get(rep).issues, LAMBDA issue : issue.autoFixable)
    ELSE <<>>

\* fixableIssues.forEach(issue => switch (issue.type) ...) from issue k on
RECURSIVE ApplyFixes(_, _, _)
ApplyFixes(st, issues, k) ==
    IF k > Len(issues) THEN st
    ELSE LET issue == issues[k]
             next == CASE issue.type = "missing" /\ issue.column # NoColumn ->
                              FixMissing(st.heap, st.ids, issue.column)
                       [] issue.type = "duplicate" ->
                              [heap |-> st.heap, ids |-> FixDuplicates(st.heap, st.ids)]
                       [] OTHER -> st
         IN  ApplyFixes(next, issues, k + 1)

autoFixIssues(h, ids, rep) ==
    ApplyFixes([heap |-> h, ids |-> ids], FixableIssues(rep), 1)

(***************************************************************************)
(* MissingValueHandler                                                     *)
(***************************************************************************)
\* getMissingValueStats: !row[column] || row[column] === '' || ...
missingStats(D) ==
    SelectSeq(Keys(D[1]), LAMBDA column :
        \E i \in 1..Len(D) : D[i][column] = "")

\* the row survives: no cell is '', null, undefined, 'N/A' or 'null'
KeepsRow(row) == \A column \in DOMAIN row : row[column] \notin {"", "N/A", "null"}

ToastEmpty == "Cannot remove all rows - dataset would be empty"
ToastRemoved == "Removed rows with missing values"
ToastFixed == "Fixed data quality issues"
ToastUploaded == "Successfully uploaded"
NoToast == "none"

\* the handler without its length check
handleRemoveMissingValues_unchecked(h, ids) ==
    LET cleanedData_ == SelectSeq(ids, LAMBDA id : KeepsRow(h[id]))
    IN  [called |-> TRUE, data |-> cleanedData_, toast |-> ToastRemoved,
         isProcessing |-> FALSE]

\* what one call of the handler does: whether it calls onDataCleaned and
\* with what, the toast it shows, and isProcessing when it returns
handleRemoveMissingValues(h, ids) ==
    LET cleanedData_ == SelectSeq(ids, LAMBDA id : KeepsRow(h[id]))
    IN  IF Len(cleanedData_) = 0
        THEN [called |-> FALSE, data |-> <<>>, toast |-> ToastEmpty,
              isProcessing |-> FALSE]
        ELSE [called |-> TRUE, data |-> cleanedData_, toast |-> ToastRemoved,
              isProcessing |-> FALSE]

(***************************************************************************)
(* The host page and the cleaning components as a state machine            *)
(***************************************************************************)
Ids(n) == [i \in 1..n |-> i]

\* the rows of the uploaded dataset, as the components read them
Uploaded == Deref(heap, Get(uploadedData))
\* the heap without the rows only an abandoned cleaned dataset holds
UploadedHeap == SubSeq(heap, 1, Len(Get(uploadedData)))

\* Index: const currentData = cleanedData || uploadedData
currentData_uploadedFirst == IF IsSome(uploadedData) THEN uploadedData ELSE cleanedData
currentData == IF IsSome(cleanedData) THEN cleanedData ELSE uploadedData

\* FileUpload is rendered only while uploadedData is null.  The components
\* mount with fresh state and the scanner's effect starts the first scan.
HandleFileUpload(D) ==
    /\ uploadedData = None
    /\ heap' = D
    /\ uploadedData' = Some(Ids(Len(D)))
    /\ cleanedData' = None
    /\ report' = None
    /\ isScanning' = (Len(D) > 0)
    /\ scanInFlight' = (Len(D) > 0)
    /\ isProcessing' = FALSE
    /\ toast' = ToastUploaded
    /\ UNCHANGED nonCleanVars

\* "Upload New File": the components unmount, a scan in flight is lost
HandleReset ==
    /\ uploadedData # None
    /\ heap' = <<>>
    /\ uploadedData' = None
    /\ cleanedData' = None
    /\ report' = None
    /\ isScanning' = FALSE
    /\ scanInFlight' = FALSE
    /\ isProcessing' = FALSE
    /\ UNCHANGED <<toast, nonCleanVars>>

\* the Rescan button (disabled while isScanning)
Rescan ==
    /\ uploadedData # None
    /\ ~isScanning
    /\ isScanning' = TRUE
    /\ scanInFlight' = TRUE
    /\ UNCHANGED <<heap, uploadedData, cleanedData, report, isProcessing, toast, nonCleanVars>>

\* performQualityScan after its delays.  On an empty dataset
\* generateQualityReport throws (data[0] is undefined) and the promise is
\* rejected before setReport and setIsScanning(false).
ScanCompletes ==
    /\ scanInFlight
    /\ scanInFlight' = FALSE
    /\ IF Len(Get(uploadedData)) = 0
       THEN UNCHANGED <<report, isScanning>>
       ELSE /\ report' = Some(generateQualityReport(Uploaded))
            /\ isScanning' = FALSE
    /\ UNCHANGED <<heap, uploadedData, cleanedData, isProcessing, toast, nonCleanVars>>

\* the Auto-fix button: shown when a report is displayed that has an
\* auto-fixable issue
AutoFix ==
    /\ uploadedData # None
    /\ IsSome(report) /\ ~isScanning
    /\ FixableIssues(report) # <<>>
    /\ LET st == autoFixIssues(UploadedHeap, Get(uploadedData), report)
       IN  /\ heap' = st.heap
           /\ cleanedData' = Some(st.ids)        \* onDataCleaned -> handleDataCleaned
    /\ toast' = ToastFixed
    /\ UNCHANGED <<uploadedData, report, isScanning, scanInFlight, isProcessing, nonCleanVars>>

\* the Remove Missing Values button: rendered when the dataset is not empty
\* and has a missing value, disabled while isProcessing
RemoveMissing ==
    /\ uploadedData # None
    /\ Len(Get(uploadedData)) > 0
    /\ missingStats(Uploaded) # <<>>
    /\ ~isProcessing
    /\ LET r == handleRemoveMissingValues(heap, Get(uploadedData))
       IN  /\ IF r.called
              THEN /\ cleanedData' = Some(r.data)   \* onDataCleaned -> handleDataCleaned
                   /\ heap' = UploadedHeap
              ELSE UNCHANGED <<cleanedData, heap>>
           /\ toast' = r.toast
           /\ isProcessing' = r.isProcessing
    /\ UNCHANGED <<uploadedData, report, isScanning, scanInFlight, nonCleanVars>>

\* the page before an upload
NothingUploaded ==
    /\ uploadedData = None
    /\ cleanedData = None
    /\ report = None
    /\ isScanning = FALSE
    /\ scanInFlight = FALSE
    /\ isProcessing = FALSE
    /\ toast = NoToast

\* no StatisticalAnalysis is mounted
NoAnalysis ==
    /\ saData = <<>>
    /\ saType = "descriptive"
    /\ saEffect = "done"
    /\ statistics = <<>>
    /\ correlations = <<>>
    /\ insights = <<>>

\* no RegressionAnalysis is mounted
NoRegression ==
    /\ regData = <<>>
    /\ targetVariable = ""
    /\ features = <<>>
    /\ regressionType = "linear"
    /\ result = None
    /\ isAnalyzing = FALSE
    /\ regRuns = <<>>
    /\ regStarted = 0

\* no CohortAnalysis is mounted
NoCohort ==
    /\ cohData = <<>>
    /\ timeZone = 0
    /\ userColumn = ""
    /\ dateColumn = ""
    /\ cohortData = <<>>
    /\ cohortAnalyzing = FALSE
    /\ cohortRuns = <<>>
    /\ cohortStarted = 0

\* no function is applied on its own
NotCalled == [state |-> "idle", model |-> None]
FitIdle == fitData = <<>> /\ fitResult = NotCalled
OutlierIdle == outlierData = <<>> /\ outlierResult = None
ClassIdle == classData = <<>> /\ classResult = None
CorrIdle == corrData = <<>> /\ corrResult = None
ForecastIdle == forecastData = <<>> /\ forecastResult = None
ClusterIdle == clusterData = <<>> /\ numClusters = 3 /\ kmPhase = "idle" /\ kmCentroids = <<>> /\ kmLabels = <<>> /\ kmPrevLabels = <<>> /\ kmIter = 0 /\ clusterResult = None
NoCalls == FitIdle /\ OutlierIdle /\ ClassIdle /\ CorrIdle /\ ForecastIdle /\ ClusterIdle

Init ==
    /\ heap = <<>>
    /\ NothingUploaded
    /\ dedupeRun = <<>>
    /\ NoAnalysis
    /\ NoRegression
    /\ NoCohort
    /\ NoCalls

Next ==
    \/ \E D \in UploadChoices : HandleFileUpload(D)
    \/ HandleReset
    \/ Rescan
    \/ ScanCompletes
    \/ AutoFix
    \/ RemoveMissing

Spec == Init /\ [][Next]_vars

(***************************************************************************)
(* The duplicate fix as a function: a dataset and the outputs of the fix   *)
(* applied to it, then to its own output.                                  *)
(***************************************************************************)
MaxDedupeRuns == 2

InitDedupe ==
    /\ heap \in UploadChoices
    /\ dedupeRun = <<Ids(Len(heap))>>
    /\ NothingUploaded
    /\ NoAnalysis
    /\ NoRegression
    /\ NoCohort
    /\ NoCalls

ApplyDuplicateFix ==
    /\ Len(dedupeRun) <= MaxDedupeRuns
    /\ dedupeRun' = Append(dedupeRun, FixDuplicates(heap, dedupeRun[Len(dedupeRun)]))
    /\ UNCHANGED nonDedupeVars

NextDedupe == ApplyDuplicateFix

SpecDedupe == InitDedupe /\ [][NextDedupe]_vars

(***************************************************************************)
(* StatisticalAnalysis.  Real numbers are kept exact: a fraction is a      *)
(* record [num, den]; std is the square root of the fraction it holds;     *)
(* skewness and a correlation hold a sign and the fraction of their        *)
(* square; nan marks the result of 0 / 0.                                  *)
(***************************************************************************)
AnalysisTypes == {"descriptive", "diagnostic", "prescriptive", "comprehensive"}

Abs(x) == IF x < 0 THEN -x ELSE x
Sign(x) == IF x > 0 THEN 1 ELSE IF x < 0 THEN -1 ELSE 0

RECURSIVE Pow(_, _)
Pow(x, k) == IF k = 0 THEN 1 ELSE x * Pow(x, k - 1)

\* n^k times the sum of (val - mean)^k over the values, mean = sum / n
CentralSum(values, k) ==
    LET n == Len(values)
        sum == SumSeq(values)
    IN  SumSeq([i \in 1..n |-> Pow(n * values[i] - sum, k)])

\* the counts of the 10 bins [binStart, binEnd) of width (max - min) / 10
Distribution(sorted) ==
    LET min == sorted[1]
        max == sorted[Len(sorted)]
    IN  [i \in 1..10 |->
            Len(SelectSeq(sorted, LAMBDA val :
                /\ 10 * (val - min) >= (i - 1) * (max - min)
                /\ 10 * (val - min) < i * (max - min)))]

numericStats(D, col, values, numericValues) ==
    LET sorted == SortAsc(numericValues)
        n == Len(sorted)
        a2 == CentralSum(sorted, 2)
        a3 == CentralSum(sorted, 3)
        a4 == CentralSum(sorted, 4)
    IN  [column |-> col,
         type |-> "numeric",
         count |-> Len(values),
         missing |-> Len(D) - Len(values),
         unique |-> Cardinality({values[i] : i \in 1..Len(values)}),
         mean |-> [num |-> SumSeq(sorted), den |-> n],
         median |-> sorted[(n \div 2) + 1],
         std |-> [num |-> a2, den |-> Pow(n, 3)],
         min |-> sorted[1],
         max |-> sorted[n],
         q1 |-> sorted[(n \div 4) + 1],
         q3 |-> sorted[((3 * n) \div 4) + 1],
         \* sum of ((val - mean) / std)^3 over n: 0 / 0 when std is 0
         skewness |-> IF a2 = 0 THEN [nan |-> TRUE, sign |-> 0, num |-> 0, den |-> 1]
                      ELSE [nan |-> FALSE, sign |-> Sign(a3),
                            num |-> n * a3 * a3, den |-> Pow(a2, 3)],
         \* sum of ((val - mean) / std)^4 over n, minus 3
         kurtosis |-> IF a2 = 0 THEN [nan |-> TRUE, num |-> 0, den |-> 1]
                      ELSE [nan |-> FALSE, num |-> n * a4 - 3 * a2 * a2, den |-> a2 * a2],
         distribution |-> Distribution(sorted)]

\* the keys of valueCounts in the order of Object.entries: the keys that
\* are array indices in ascending order, then the others as first inserted
IndexKeys == <<"1", "2">>
EntryKeys(values) ==
    LET present == {values[i] : i \in 1..Len(values)}
        isIndex(v) == \E k \in 1..Len(IndexKeys) : IndexKeys[k] = v
        firsts == SelectSeq(Ids(Len(values)), LAMBDA i :
                      /\ ~isIndex(values[i])
                      /\ \A j \in 1..(i - 1) : values[j] # values[i])
    IN  SelectSeq(IndexKeys, LAMBDA v : v \in present)
            \o [k \in 1..Len(firsts) |-> values[firsts[k]]]

ValueCount(values, v) == Len(SelectSeq(values, LAMBDA w : w = v))

\* entries.reduce((a, b) => valueCounts[a[0]] > valueCounts[b[0]] ? a : b)
RECURSIVE ModeReduce(_, _, _)
ModeReduce(values, keys, a) ==
    IF keys = <<>> THEN a
    ELSE ModeReduce(values, Tail(keys),
             IF ValueCount(values, a) > ValueCount(values, Head(keys))
             THEN a ELSE Head(keys))

categoricalStats(D, col, values) ==
    LET keys == EntryKeys(values)
    IN  [column |-> col,
         type |-> "categorical",
         count |-> Len(values),
         missing |-> Len(D) - Len(values),
         unique |-> Cardinality({values[i] : i \in 1..Len(values)}),
         mode |-> ModeReduce(values, Tail(keys), Head(keys))]

\* one iteration of columns.forEach; reduce without an initial value
\* throws a TypeError on the empty entries of a column without a value
ColumnValues(D, col) == SelectSeq(Column(D, col), NonEmpty)
ColumnNumericValues(D, col) ==
    LET parsed == SelectSeq(ColumnValues(D, col), ParseFloatOk)
    IN  [i \in 1..Len(parsed) |-> ParseFloat(parsed[i])]
ColumnIsNumeric(D, col) ==
    \* numericValues.length > values.length * 0.8
    /\ 5 * Len(ColumnNumericValues(D, col)) > 4 * Len(ColumnValues(D, col))
    /\ Len(ColumnNumericValues(D, col)) > 0

ColumnThrows(D, col) == ~ColumnIsNumeric(D, col) /\ ColumnValues(D, col) = <<>>

columnStats(D, col) ==
    IF ColumnIsNumeric(D, col)
    THEN numericStats(D, col, ColumnValues(D, col), ColumnNumericValues(D, col))
    ELSE categoricalStats(D, col, ColumnValues(D, col))

calculatePearsonCorrelation_xDenominator(D, col1, col2) ==
    LET rows == SelectSeq(D, LAMBDA row : ParseFloatOk(row[col1]) /\ ParseFloatOk(row[col2]))
        xs == [i \in 1..Len(rows) |-> ParseFloat(rows[i][col1])]
        ys == [i \in 1..Len(rows) |-> ParseFloat(rows[i][col2])]
        n == Len(rows)
        sumX == SumSeq(xs)
        sumY == SumSeq(ys)
        sumXY == SumSeq([i \in 1..n |-> xs[i] * ys[i]])
        sumX2 == SumSeq([i \in 1..n |-> xs[i] * xs[i]])
        sumY2 == SumSeq([i \in 1..n |-> ys[i] * ys[i]])
        numerator == n * sumXY - sumX * sumY
        denominator2 == (n * sumX2 - sumX * sumX) * (n * sumX2 - sumX * sumX)
    IN  IF n < 2 \/ denominator2 = 0
        THEN [sign |-> 0, num |-> 0, den |-> 1]
        ELSE [sign |-> Sign(numerator), num |-> numerator * numerator, den |-> denominator2]
calculatePearsonCorrelation(D, col1, col2) ==
    LET rows == SelectSeq(D, LAMBDA row : ParseFloatOk(row[col1]) /\ ParseFloatOk(row[col2]))
        xs == [i \in 1..Len(rows) |-> ParseFloat(rows[i][col1])]
        ys == [i \in 1..Len(rows) |-> ParseFloat(rows[i][col2])]
        n == Len(rows)
        sumX == SumSeq(xs)
        sumY == SumSeq(ys)
        sumXY == SumSeq([i \in 1..n |-> xs[i] * ys[i]])
        sumX2 == SumSeq([i \in 1..n |-> xs[i] * xs[i]])
        sumY2 == SumSeq([i \in 1..n |-> ys[i] * ys[i]])
        numerator == n * sumXY - sumX * sumY
        denominator2 == (n * sumX2 - sumX * sumX) * (n * sumY2 - sumY * sumY)
    IN  IF n < 2 \/ denominator2 = 0
        THEN [sign |-> 0, num |-> 0, den |-> 1]
        ELSE [sign |-> Sign(numerator), num |-> numerator * numerator, den |-> denominator2]

\* Math.abs(r) > 0.7 and Math.abs(r) > 0.3 on a correlation
AbsAbove07(r) == 100 * r.num > 49 * r.den
AbsAbove03(r) == 100 * r.num > 9 * r.den

\* correlationMatrix.sort((a, b) => Math.abs(b.correlation) - Math.abs(a.correlation))
RECURSIVE InsertByAbs(_, _)
InsertByAbs(c, s) ==
    IF s = <<>> THEN <<c>>
    ELSE IF c.correlation.num * Head(s).correlation.den
                > Head(s).correlation.num * c.correlation.den
         THEN <<c>> \o s
         ELSE <<Head(s)>> \o InsertByAbs(c, Tail(s))

RECURSIVE SortByAbs(_)
SortByAbs(s) ==
    IF s = <<>> THEN <<>>
    ELSE InsertByAbs(s[Len(s)], SortByAbs(SubSeq(s, 1, Len(s) - 1)))

calculateCorrelations(D, numericStats_) ==
    LET m == Len(numericStats_)
        pairs == FlatMap(Ids(m), LAMBDA i :
                     [k \in 1..(m - i) |-> <<numericStats_[i].column, numericStats_[i + k].column>>])
    IN  SortByAbs([k \in 1..Len(pairs) |->
            LET correlation == calculatePearsonCorrelation(D, pairs[k][1], pairs[k][2])
            IN  [col1 |-> pairs[k][1],
                 col2 |-> pairs[k][2],
                 correlation |-> correlation,
                 strength |-> IF AbsAbove07(correlation) THEN "Strong"
                              ELSE IF AbsAbove03(correlation) THEN "Moderate"
                              ELSE "Weak"]])

\* Math.abs(s.skewness || 0) and Math.abs(s.kurtosis || 0): NaN || 0 is 0
SkewAbsAbove1(st) == ~st.skewness.nan /\ st.skewness.num > st.skewness.den
SkewAbsBelowHalf(st) == st.skewness.nan \/ 4 * st.skewness.num < st.skewness.den
KurtAbsBelow3(st) == st.kurtosis.nan \/ Abs(st.kurtosis.num) < 3 * st.kurtosis.den

Count(s, P(_)) == Len(SelectSeq(s, P))

\* the insights pushed for one kind of analysis; corrs is the
\* correlations the function reads
generateInsights(D, type_, stats, corrs) ==
    LET numericCols == SelectSeq(stats, LAMBDA st : st.type = "numeric")
        categoricalCols == SelectSeq(stats, LAMBDA st : st.type = "categorical")
        highMissingCols == Count(stats, LAMBDA st : 10 * st.missing > Len(D))
        skewedCols == Count(numericCols, SkewAbsAbove1)
        outlierCols == Count(numericCols, LAMBDA st :
            LET iqr == st.q3 - st.q1
            IN  \/ 2 * st.min < 2 * st.q1 - 3 * iqr
                \/ 2 * st.max > 2 * st.q3 + 3 * iqr)
        strongCorrs == Count(corrs, LAMBDA c : AbsAbove07(c.correlation))
        highCardinalityCols == Count(categoricalCols, LAMBDA st : st.unique > 20)
        normalDistCols == Count(numericCols, LAMBDA st : SkewAbsBelowHalf(st) /\ KurtAbsBelow3(st))
        insight(kind, n) == [kind |-> kind, count |-> n]
    IN  (IF type_ \in {"descriptive", "comprehensive"}
         THEN <<[kind |-> "variables", count |-> Len(numericCols),
                 categorical |-> Len(categoricalCols)]>>
              \o (IF highMissingCols > 0 THEN <<insight("missing", highMissingCols)>> ELSE <<>>)
              \o (IF skewedCols > 0 THEN <<insight("skewness", skewedCols)>> ELSE <<>>)
         ELSE <<>>)
        \o (IF type_ \in {"diagnostic", "comprehensive"}
            THEN (IF outlierCols > 0 THEN <<insight("outliers", outlierCols)>> ELSE <<>>)
                 \o (IF strongCorrs > 0 THEN <<insight("strong correlations", strongCorrs)>> ELSE <<>>)
            ELSE <<>>)
        \o (IF type_ \in {"prescriptive", "comprehensive"}
            THEN (IF highCardinalityCols > 0 THEN <<insight("high cardinality", highCardinalityCols)>> ELSE <<>>)
                 \o (IF normalDistCols > 0 THEN <<insight("normal", normalDistCols)>> ELSE <<>>)
            ELSE <<>>)

(***************************************************************************)
(* StatisticalAnalysis as a state machine: the component is mounted with   *)
(* a non-empty dataset (AdvancedAnalytics renders nothing otherwise); its  *)
(* effect runs analyzeData after the mount and after every change of the   *)
(* data or type prop.                                                      *)
(***************************************************************************)
StatRows == RowsOver(2, StatCells)
StatDatasets == UNION {[1..len -> StatRows] : len \in 1..MaxStatRows}

\* analyzeData, called by the effect.  generateInsights reads the
\* correlations of the render that created the effect: setCorrelations
\* does not change the variable the running closure sees.
AnalyzeData ==
    /\ saEffect = "pending"
    /\ LET columns == Keys(saData[1])
           stats == [i \in 1..Len(columns) |-> columnStats(saData, columns[i])]
       IN  IF \E i \in 1..Len(columns) : ColumnThrows(saData, columns[i])
           THEN /\ saEffect' = "crashed"
                /\ UNCHANGED <<statistics, correlations, insights>>
           ELSE /\ saEffect' = "done"
                /\ statistics' = stats
                /\ correlations' = calculateCorrelations(saData,
                        SelectSeq(stats, LAMBDA st : st.type = "numeric"))
                /\ insights' = generateInsights(saData, saType, stats, correlations)
    /\ UNCHANGED <<saData, saType, nonStatVars>>

\* the parent passes another type
ChangeType(t) ==
    /\ saEffect = "done"
    /\ t # saType
    /\ saType' = t
    /\ saEffect' = "pending"
    /\ UNCHANGED <<saData, statistics, correlations, insights, nonStatVars>>

\* the parent passes another dataset: one row replaced, added or removed
DataChanges(D) ==
    {[D EXCEPT ![i] = r] : i \in 1..Len(D), r \in StatRows}
        \cup (IF Len(D) < MaxStatRows THEN {Append(D, r) : r \in StatRows} ELSE {})
        \cup (IF Len(D) > 1 THEN {SubSeq(D, 1, Len(D) - 1)} ELSE {})

ChangeData(D) ==
    /\ saEffect = "done"
    /\ D # saData
    /\ saData' = D
    /\ saEffect' = "pending"
    /\ UNCHANGED <<saType, statistics, correlations, insights, nonStatVars>>

InitStat ==
    /\ saData \in StatDatasets
    /\ saType \in AnalysisTypes
    /\ saEffect = "pending"
    /\ statistics = <<>>
    /\ correlations = <<>>
    /\ insights = <<>>
    /\ heap = <<>>
    /\ NothingUploaded
    /\ dedupeRun = <<>>
    /\ NoRegression
    /\ NoCohort
    /\ NoCalls

NextStat ==
    \/ AnalyzeData
    \/ \E t \in AnalysisTypes : ChangeType(t)
    \/ \E D \in DataChanges(saData) : ChangeData(D)

SpecStat == InitStat /\ [][NextStat]_vars

(***************************************************************************)
(* Numbers of the regression code.  A number is a record [n, d]: a         *)
(* fraction n / d in lowest terms when d > 0, +Infinity or -Infinity when  *)
(* d = 0 and n = 1 or -1, NaN when n = d = 0.  Zero has no sign.           *)
(***************************************************************************)
RECURSIVE Gcd(_, _)
Gcd(a, b) == IF b = 0 THEN a ELSE Gcd(b, a % b)

Q(n, d) ==
    IF d = 0 THEN [n |-> Sign(n), d |-> 0]
    ELSE LET g == Gcd(Abs(n), Abs(d))
         IN  [n |-> Sign(d) * (n \div g), d |-> Abs(d) \div g]

QInt(i) == [n |-> i, d |-> 1]
QNaN == [n |-> 0, d |-> 0]
QIsNaN(a) == a.n = 0 /\ a.d = 0

QNeg(a) == [n |-> -a.n, d |-> a.d]
QAdd(a, b) ==
    IF QIsNaN(a) \/ QIsNaN(b) THEN QNaN
    ELSE IF a.d = 0 /\ b.d = 0 THEN (IF a.n = b.n THEN a ELSE QNaN)
    ELSE Q(a.n * b.d + b.n * a.d, a.d * b.d)
QSub(a, b) == QAdd(a, QNeg(b))
QMul(a, b) == IF QIsNaN(a) \/ QIsNaN(b) THEN QNaN ELSE Q(a.n * b.n, a.d * b.d)
QInv(a) == IF a.n < 0 THEN Q(-a.d, -a.n) ELSE Q(a.d, a.n)
QDiv(a, b) == QMul(a, QInv(b))
QAbs(a) == [n |-> Abs(a.n), d |-> a.d]

\* a > b; a comparison with NaN is false
QGt(a, b) ==
    /\ ~QIsNaN(a) /\ ~QIsNaN(b)
    /\ IF a.d = 0 /\ b.d = 0 THEN a.n > b.n
       ELSE IF a.d = 0 THEN a.n > 0
       ELSE IF b.d = 0 THEN b.n < 0
       ELSE a.n * b.d > b.n * a.d

RECURSIVE QSum(_)
QSum(s) == IF s = <<>> THEN QInt(0) ELSE QAdd(Head(s), QSum(Tail(s)))

\* Math.sqrt(a), kept as the number under the root: NaN for a negative one
QSqrt(a) == IF QIsNaN(a) \/ a.n < 0 THEN [of |-> QNaN] ELSE [of |-> a]

(***************************************************************************)
(* RegressionAnalysis: the three models.  D is the data prop; a run is the *)
(* selection [targetVariable, features, regressionType] of the render      *)
(* whose performRegression was called.  Sums of cells are exact; a         *)
(* quotient is the exact fraction the floating-point division approximates.*)
(***************************************************************************)
RegressionTypes == {"linear", "multiple", "polynomial"}

\* Object.keys(data[0] || {}) filtered on the first ten rows
numericColumns(D) ==
    IF D = <<>> THEN <<>>
    ELSE SelectSeq(Keys(D[1]), LAMBDA col :
            \A i \in 1..Min(10, Len(D)) : NumberOk(D[i][col]))

QSquare(a) == QMul(a, a)

\* the {x, y} pairs of the rows in which both cells parse
regressionPairs(D, run) ==
    LET xcol == run.features[1]
        ycol == run.targetVariable
        ok == SelectSeq(D, LAMBDA row :
                 ParseFloatOk(row[xcol]) /\ ParseFloatOk(row[ycol]))
    IN  [i \in 1..Len(ok) |->
            [x |-> ParseFloat(ok[i][xcol]), y |-> ParseFloat(ok[i][ycol])]]

\* the rows {x: [...], y} in which the target and every feature parse
regressionCleanData(D, run) ==
    LET ok == SelectSeq(D, LAMBDA row :
                 /\ ParseFloatOk(row[run.targetVariable])
                 /\ \A j \in 1..Len(run.features) : ParseFloatOk(row[run.features[j]]))
    IN  [i \in 1..Len(ok) |->
            [x |-> [j \in 1..Len(run.features) |-> ParseFloat(ok[i][run.features[j]])],
             y |-> ParseFloat(ok[i][run.targetVariable])]]

\* ssTotal of the y values
ssTotalOf(ys) ==
    LET meanY == QDiv(QInt(SumSeq(ys)), QInt(Len(ys)))
    IN  QSum([i \in 1..Len(ys) |-> QSquare(QSub(QInt(ys[i]), meanY))])

FixedPValue == [fixed |-> TRUE, tSquared |-> QNaN, df |-> 0]   \* pValue: 0.05

\* The two-point fits, over x in 1..4 and y in {1, 2, 4, 6}, whose slope is
\* not a binary fraction and whose predictions, computed in double
\* precision, miss an observation by a rounding error: <<x1, y1, x2, y2>>
InexactTwoPointFits ==
    {<<1, 1, 4, 6>>, <<1, 2, 4, 1>>, <<1, 4, 4, 2>>, <<1, 6, 4, 4>>,
     <<4, 1, 1, 2>>, <<4, 2, 1, 4>>, <<4, 4, 1, 6>>, <<4, 6, 1, 1>>}
\* a residual sum of the order of 1e-32, which stands for any positive one
RoundingResidual == Q(1, 1048576)
\* ssResidual as the floating-point sum: the exact sum, except where the
\* exact sum is 0 and the rounding leaves a positive one
roundedResidual(pairs, ssResidual) ==
    IF Len(pairs) = 2
       /\ <<pairs[1].x, pairs[1].y, pairs[2].x, pairs[2].y>> \in InexactTwoPointFits
    THEN RoundingResidual
    ELSE ssResidual

performSimpleLinearRegression_meanIntercept(D, run) ==
    LET pairs == regressionPairs(D, run)
        n == Len(pairs)
        xs == [i \in 1..n |-> pairs[i].x]
        ys == [i \in 1..n |-> pairs[i].y]
        sumX == SumSeq(xs)
        sumY == SumSeq(ys)
        sumXY == SumSeq([i \in 1..n |-> xs[i] * ys[i]])
        sumX2 == SumSeq([i \in 1..n |-> xs[i] * xs[i]])
        slope == QDiv(QInt(n * sumXY - sumX * sumY), QInt(n * sumX2 - sumX * sumX))
        intercept == QDiv(QInt(sumY), QInt(n))
        predicted == [i \in 1..n |-> QAdd(QMul(slope, QInt(xs[i])), intercept)]
        ssTotal == ssTotalOf(ys)
        ssResidual == QSum([i \in 1..n |-> QSquare(QSub(QInt(ys[i]), predicted[i]))])
        errorSquared == QDiv(roundedResidual(pairs, ssResidual), QInt(n - 2))
        \* tStatistic = slope / (standardError / sqrt(sumX2 - sumX^2 / n))
        spread == QSub(QInt(sumX2), QDiv(QInt(sumX * sumX), QInt(n)))
    IN  [slope |-> slope,
         intercept |-> intercept,
         rSquared |-> QSub(QInt(1), QDiv(ssResidual, ssTotal)),
         pValue |-> [fixed |-> FALSE,
                     tSquared |-> QDiv(QSquare(slope), QDiv(errorSquared, spread)),
                     df |-> n - 2],
         standardError |-> QSqrt(errorSquared),
         predictions |-> [i \in 1..n |->
              [x |-> QInt(xs[i]), y |-> QInt(ys[i]), predicted |-> predicted[i],
               residual |-> QSub(QInt(ys[i]), predicted[i])]],
         coefficients |-> None]
performSimpleLinearRegression(D, run) ==
    LET pairs == regressionPairs(D, run)
        n == Len(pairs)
        xs == [i \in 1..n |-> pairs[i].x]
        ys == [i \in 1..n |-> pairs[i].y]
        sumX == SumSeq(xs)
        sumY == SumSeq(ys)
        sumXY == SumSeq([i \in 1..n |-> xs[i] * ys[i]])
        sumX2 == SumSeq([i \in 1..n |-> xs[i] * xs[i]])
        slope == QDiv(QInt(n * sumXY - sumX * sumY), QInt(n * sumX2 - sumX * sumX))
        intercept == QDiv(QSub(QInt(sumY), QMul(slope, QInt(sumX))), QInt(n))
        predicted == [i \in 1..n |-> QAdd(QMul(slope, QInt(xs[i])), intercept)]
        ssTotal == ssTotalOf(ys)
        ssResidual == QSum([i \in 1..n |-> QSquare(QSub(QInt(ys[i]), predicted[i]))])
        errorSquared == QDiv(roundedResidual(pairs, ssResidual), QInt(n - 2))
        \* tStatistic = slope / (standardError / sqrt(sumX2 - sumX^2 / n))
        spread == QSub(QInt(sumX2), QDiv(QInt(sumX * sumX), QInt(n)))
    IN  [slope |-> slope,
         intercept |-> intercept,
         rSquared |-> QSub(QInt(1), QDiv(ssResidual, ssTotal)),
         pValue |-> [fixed |-> FALSE,
                     tSquared |-> QDiv(QSquare(slope), QDiv(errorSquared, spread)),
                     df |-> n - 2],
         standardError |-> QSqrt(errorSquared),
         predictions |-> [i \in 1..n |->
              [x |-> QInt(xs[i]), y |-> QInt(ys[i]), predicted |-> predicted[i],
               residual |-> QSub(QInt(ys[i]), predicted[i])]],
         coefficients |-> None]

\* the pivot search of gaussianElimination: the rows k..n against maxRow
RECURSIVE findPivot(_, _, _, _)
findPivot(augmented, i, k, maxRow) ==
    IF k > Len(augmented) THEN maxRow
    ELSE findPivot(augmented, i, k + 1,
            IF QGt(QAbs(augmented[k][i]), QAbs(augmented[maxRow][i]))
            THEN k ELSE maxRow)

\* the forward elimination, columns i..n
RECURSIVE forwardElimination(_, _)
forwardElimination(augmented, i) ==
    LET n == Len(augmented)
        maxRow == findPivot(augmented, i, i + 1, i)
        swapped == [augmented EXCEPT ![i] = augmented[maxRow],
                                     ![maxRow] = augmented[i]]
        cleared == [k \in 1..n |->
            IF k <= i THEN swapped[k]
            ELSE LET factor == QDiv(swapped[k][i], swapped[i][i])
                 IN  [j \in 1..(n + 1) |->
                        IF j < i THEN swapped[k][j]
                        ELSE QSub(swapped[k][j], QMul(factor, swapped[i][j]))]]
    IN  IF i > n THEN augmented ELSE forwardElimination(cleared, i + 1)

\* solution[i] minus augmented[i][j] * solution[j] for j = from..n, in order
RECURSIVE backTerms(_, _, _, _, _)
backTerms(augmented, solution, i, from, acc) ==
    IF from > Len(augmented) THEN acc
    ELSE backTerms(augmented, solution, i, from + 1,
            QSub(acc, QMul(augmented[i][from], solution[from])))

\* the back substitution, rows i..1
RECURSIVE backSubstitution(_, _, _)
backSubstitution(augmented, solution, i) ==
    IF i < 1 THEN solution
    ELSE LET n == Len(augmented)
             rest == backTerms(augmented, solution, i, i + 1, augmented[i][n + 1])
         IN  backSubstitution(augmented,
                [solution EXCEPT ![i] = QDiv(rest, augmented[i][i])], i - 1)

gaussianElimination(A, b) ==
    LET n == Len(A)
        augmented == [i \in 1..n |-> Append(A[i], b[i])]
    IN  backSubstitution(forwardElimination(augmented, 1),
                         [i \in 1..n |-> QInt(0)], n)

\* X and y hold integers; X'X and X'y are exact
solveNormalEquation(X, y) ==
    LET n == Len(X)
        m == Len(X[1])
        XtX == [i \in 1..m |-> [j \in 1..m |->
                    QInt(SumSeq([k \in 1..n |-> X[k][i] * X[k][j]]))]]
        Xty == [i \in 1..m |-> QInt(SumSeq([k \in 1..n |-> X[k][i] * y[k]]))]
    IN  gaussianElimination(XtX, Xty)

\* Math.max(...values): NaN when a value is NaN, -Infinity for no value
RECURSIVE QMax(_)
QMax(values) ==
    IF values = <<>> THEN Q(-1, 0)
    ELSE LET rest == QMax(Tail(values))
         IN  IF QIsNaN(Head(values)) \/ QIsNaN(rest) THEN QNaN
             ELSE IF QGt(Head(values), rest) THEN Head(values) ELSE rest

\* the fields the multiple and the polynomial model compute alike
fittedModel(X, xs, ys, coefficients, parameters) ==
    LET n == Len(ys)
        predicted == [i \in 1..n |-> QSum([j \in 1..Len(coefficients) |->
                                          QMul(coefficients[j], QInt(X[i][j]))])]
        predictions == [i \in 1..n |->
              [x |-> QInt(xs[i]), y |-> QInt(ys[i]), predicted |-> predicted[i],
               residual |-> QSub(QInt(ys[i]), predicted[i])]]
        ssResidual == QSum([i \in 1..n |-> QSquare(predictions[i].residual)])
    IN  [rSquared |-> QSub(QInt(1), QDiv(ssResidual, ssTotalOf(ys))),
         standardError |-> QSqrt(QDiv(ssResidual, QInt(n - parameters))),
         predictions |-> predictions]

performMultipleLinearRegression(D, run) ==
    LET cleanData == regressionCleanData(D, run)
        X == [i \in 1..Len(cleanData) |-> <<1>> \o cleanData[i].x]
        y == [i \in 1..Len(cleanData) |-> cleanData[i].y]
        coefficients == solveNormalEquation(X, y)
        fit == fittedModel(X, [i \in 1..Len(cleanData) |-> cleanData[i].x[1]], y,
                           coefficients, Len(run.features) + 1)
        maxCoef == QMax([j \in 1..Len(run.features) |-> QAbs(coefficients[j + 1])])
    IN  [slope |-> IF QIsNaN(coefficients[2]) THEN QInt(0) ELSE coefficients[2],
         intercept |-> coefficients[1],
         rSquared |-> fit.rSquared,
         pValue |-> FixedPValue,
         standardError |-> fit.standardError,
         predictions |-> fit.predictions,
         coefficients |-> Some([j \in 1..Len(run.features) |->
              [feature |-> run.features[j],
               coefficient |-> coefficients[j + 1],
               importance |-> IF QGt(maxCoef, QInt(0))
                              THEN QDiv(QAbs(coefficients[j + 1]), maxCoef)
                              ELSE QInt(0)]])]

performPolynomialRegression(D, run) ==
    LET pairs == regressionPairs(D, run)
        X == [i \in 1..Len(pairs) |-> <<1, pairs[i].x, pairs[i].x * pairs[i].x>>]
        y == [i \in 1..Len(pairs) |-> pairs[i].y]
        coefficients == solveNormalEquation(X, y)
        fit == fittedModel(X, [i \in 1..Len(pairs) |-> pairs[i].x], y, coefficients, 3)
    IN  [slope |-> coefficients[2],
         intercept |-> coefficients[1],
         rSquared |-> fit.rSquared,
         pValue |-> FixedPValue,
         standardError |-> fit.standardError,
         predictions |-> fit.predictions,
         coefficients |-> None]

\* the branch of performRegression a run takes
regressionBranch(run) ==
    IF run.regressionType = "linear" /\ Len(run.features) = 1 THEN "simple"
    ELSE IF run.regressionType = "multiple" THEN "multiple"
    ELSE IF run.regressionType = "polynomial" THEN "polynomial"
    ELSE "none"

\* the branch throws 'Insufficient data'
regressionThrows(D, run) ==
    CASE regressionBranch(run) = "simple" -> Len(regressionPairs(D, run)) < 2
      [] regressionBranch(run) = "multiple" ->
            Len(regressionCleanData(D, run)) < Len(run.features) + 1
      [] regressionBranch(run) = "polynomial" -> Len(regressionPairs(D, run)) < 3
      [] OTHER -> FALSE

regressionModel(D, run) ==
    CASE regressionBranch(run) = "simple" -> performSimpleLinearRegression(D, run)
      [] regressionBranch(run) = "multiple" -> performMultipleLinearRegression(D, run)
      [] regressionBranch(run) = "polynomial" -> performPolynomialRegression(D, run)

\* the value of result after the try block of performRegression
performRegression_keep(D, run, previous) ==
    IF regressionBranch(run) = "none" \/ regressionThrows(D, run) THEN previous
    ELSE Some(regressionModel(D, run))
performRegression(D, run, previous) ==
    IF regressionBranch(run) = "none" THEN previous
    ELSE IF regressionThrows(D, run) THEN None
    ELSE Some(regressionModel(D, run))

(***************************************************************************)
(* RegressionAnalysis as a state machine.  The component is mounted with a *)
(* non-empty dataset.  Its effect calls performRegression after every      *)
(* change of targetVariable, features or regressionType that leaves a      *)
(* target and at least one feature; the Run button calls it too.  A call   *)
(* sets isAnalyzing and waits for a 1000 ms timer: the selections stay     *)
(* enabled meanwhile, and the timers fire in the order they were set.      *)
(***************************************************************************)
\* the files given to the regression: a complete one, one with missing
\* cells and one whose column b is not numeric, cut to their first rows
RegSamples ==
    {<<[a |-> "1", b |-> "1"], [a |-> "2", b |-> "1"],
       [a |-> "1", b |-> "2"], [a |-> "2", b |-> "2"]>>,
     <<[a |-> "1", b |-> "2"], [a |-> "", b |-> "1"],
       [a |-> "2", b |-> "1"], [a |-> "2", b |-> ""]>>,
     <<[a |-> "1", b |-> "x"], [a |-> "2", b |-> "1"],
       [a |-> "1", b |-> "2"], [a |-> "2", b |-> "x"]>>}
RegDatasets ==
    {[i \in 1..len |-> S[((i - 1) % Len(S)) + 1]] :
        S \in RegSamples, len \in 1..MaxRegRows}

Selection(t, f, ty) == [targetVariable |-> t, features |-> f, regressionType |-> ty]

\* the render with the selection (t, f, ty) is committed: its effect runs
RegressionEffect(t, f, ty) ==
    IF t # "" /\ f # <<>>
    THEN /\ regStarted < MaxRegRuns
         /\ isAnalyzing' = TRUE
         /\ regRuns' = Append(regRuns, Selection(t, f, ty))
         /\ regStarted' = regStarted + 1
    ELSE UNCHANGED <<isAnalyzing, regRuns, regStarted>>

\* the Target Variable select
SetTargetVariable(col) ==
    /\ regData # <<>>
    /\ col # targetVariable
    /\ targetVariable' = col
    /\ RegressionEffect(col, features, regressionType)
    /\ UNCHANGED <<regData, features, regressionType, result, nonRegVars>>

\* the Regression Type select
SetRegressionType(ty) ==
    /\ regData # <<>>
    /\ ty # regressionType
    /\ regressionType' = ty
    /\ RegressionEffect(targetVariable, features, ty)
    /\ UNCHANGED <<regData, targetVariable, features, result, nonRegVars>>

\* a Features checkbox: the columns other than the target are listed
handleFeatureToggle(feature) ==
    /\ regData # <<>>
    /\ feature # targetVariable
    /\ features' = IF \E j \in 1..Len(features) : features[j] = feature
                   THEN SelectSeq(features, LAMBDA f : f # feature)
                   ELSE Append(features, feature)
    /\ RegressionEffect(targetVariable, features', regressionType)
    /\ UNCHANGED <<regData, targetVariable, regressionType, result, nonRegVars>>

\* the Run Regression button, disabled while isAnalyzing
RunRegression ==
    /\ targetVariable # "" /\ features # <<>> /\ ~isAnalyzing
    /\ regStarted < MaxRegRuns
    /\ isAnalyzing' = TRUE
    /\ regRuns' = Append(regRuns, Selection(targetVariable, features, regressionType))
    /\ regStarted' = regStarted + 1
    /\ UNCHANGED <<regData, targetVariable, features, regressionType, result, nonRegVars>>

\* the timer of the oldest call fires: the rest of performRegression runs
RegressionCompletes ==
    /\ regRuns # <<>>
    /\ result' = performRegression(regData, Head(regRuns), result)
    /\ isAnalyzing' = FALSE
    /\ regRuns' = Tail(regRuns)
    /\ UNCHANGED <<regData, targetVariable, features, regressionType, regStarted,
                   nonRegVars>>

\* the columns the selects and the checkboxes offer
NumericColumnSet ==
    {numericColumns(regData)[j] : j \in 1..Len(numericColumns(regData))}

InitRegression ==
    /\ regData \in RegDatasets
    /\ targetVariable = ""
    /\ features = <<>>
    /\ regressionType = "linear"
    /\ result = None
    /\ isAnalyzing = FALSE
    /\ regRuns = <<>>
    /\ regStarted = 0
    /\ heap = <<>>
    /\ NothingUploaded
    /\ dedupeRun = <<>>
    /\ NoAnalysis
    /\ NoCohort
    /\ NoCalls

NextRegression ==
    \/ \E col \in NumericColumnSet : SetTargetVariable(col)
    \/ \E col \in NumericColumnSet : handleFeatureToggle(col)
    \/ \E ty \in RegressionTypes : SetRegressionType(ty)
    \/ RunRegression
    \/ RegressionCompletes

SpecRegression == InitRegression /\ [][NextRegression]_vars

(***************************************************************************)
(* The functions applied on their own: a specification draws the input of  *)
(* one function from a bounded set and its action applies the function.    *)
(***************************************************************************)
(***************************************************************************)
(* CohortAnalysis.  A Date holds an instant; every instant met here is a   *)
(* 00:00 UTC, so it is kept as its number of days since the first day of   *)
(* EpochYear.  The local getters and setters of Date read it in the time   *)
(* zone of the host: timeZone is the number of days the local calendar is  *)
(* behind UTC at 00:00 UTC, 0 at and east of Greenwich, 1 west of it.      *)
(* Daylight saving changes are not modelled.                               *)
(***************************************************************************)
CohortColumns == <<"user_id", "user", "signup", "date">>
CohortKeys(row) == SelectSeq(CohortColumns, LAMBDA c : c \in DOMAIN row)

EpochYear == 2023
CalendarYears == EpochYear..(EpochYear + 3)
IsLeap(y) == y % 4 = 0 /\ (y % 100 # 0 \/ y % 400 = 0)
DaysInMonth(y, m) ==
    CASE m = 2 -> IF IsLeap(y) THEN 29 ELSE 28
      [] m \in {4, 6, 9, 11} -> 30
      [] OTHER -> 31
RECURSIVE DaysBeforeYear(_)
DaysBeforeYear(y) ==
    IF y <= EpochYear THEN 0
    ELSE DaysBeforeYear(y - 1) + (IF IsLeap(y - 1) THEN 366 ELSE 365)
RECURSIVE DaysBeforeMonth(_, _)
DaysBeforeMonth(y, m) ==
    IF m = 1 THEN 0 ELSE DaysBeforeMonth(y, m - 1) + DaysInMonth(y, m - 1)

\* the day number of day d of month m (1..12) of year y; a d past the end
\* of the month runs into the following months
MakeDay(y, m, d) == DaysBeforeYear(y) + DaysBeforeMonth(y, m) + d - 1

\* the calendar date of a day number
CalendarDate(n) ==
    LET y == CHOOSE c \in CalendarYears :
                 DaysBeforeYear(c) <= n /\ n < DaysBeforeYear(c + 1)
        m == CHOOSE c \in 1..12 :
                 MakeDay(y, c, 1) <= n /\ n < MakeDay(y, c, 1) + DaysInMonth(y, c)
    IN  [year |-> y, month |-> m, day |-> n - MakeDay(y, m, 1) + 1]

\* the date-only ISO strings of the cells, which Date.parse reads as UTC
IsoDateOk(v) == v \in {"2024-01-15", "2024-03-02"}
IsoDate(v) ==
    CASE v = "2024-01-15" -> [year |-> 2024, month |-> 1, day |-> 15]
      [] v = "2024-03-02" -> [year |-> 2024, month |-> 3, day |-> 2]

\* a property of a parsed row: a Date (valid or not) or a string cell
InvalidDate == [isDate |-> TRUE, valid |-> FALSE, time |-> 0]
DateAt(n) == [isDate |-> TRUE, valid |-> TRUE, time |-> n]
StringCell == [isDate |-> FALSE, valid |-> FALSE, time |-> 0]

\* new Date(v) of a string cell
NewDate(v) ==
    IF IsoDateOk(v)
    THEN DateAt(MakeDay(IsoDate(v).year, IsoDate(v).month, IsoDate(v).day))
    ELSE InvalidDate

\* date.getFullYear(), date.getMonth() (0..11), date.setMonth(month)
getFullYear(date, zone) == CalendarDate(date.time - zone).year
getMonth(date, zone) == CalendarDate(date.time - zone).month - 1
setMonth(date, month, zone) ==
    LET local == CalendarDate(date.time - zone)
    IN  DateAt(MakeDay(local.year + (month \div 12), (month % 12) + 1, local.day)
               + zone)

\* the columns the two selects offer
dateColumns(D) ==
    IF D = <<>> THEN <<>>
    ELSE SelectSeq(CohortKeys(D[1]), LAMBDA col :
            \E i \in 1..Min(5, Len(D)) : IsoDateOk(D[i][col]))
NameIsUser(col) == col \in {"user_id", "user"}
userColumns(D) ==
    IF D = <<>> THEN <<>> ELSE SelectSeq(CohortKeys(D[1]), NameIsUser)

\* what a performCohortAnalysis call closes over
CohortRun(u, d) == [userColumn |-> u, dateColumn |-> d]

\* {user: row[userColumn], date: new Date(row[dateColumn]), ...row}: the
\* spread comes last, so a column named user or date replaces the property
parsedRow(row, run) ==
    [user |-> IF "user" \in DOMAIN row THEN row["user"] ELSE row[run.userColumn],
     date |-> IF "date" \in DOMAIN row THEN StringCell
              ELSE NewDate(row[run.dateColumn])]

\* row.date.getTime() of a string is a TypeError
cohortThrows(D, run) ==
    \E i \in 1..Len(D) : ~parsedRow(D[i], run).date.isDate

parsedData(D, run) ==
    SelectSeq([i \in 1..Len(D) |-> parsedRow(D[i], run)],
              LAMBDA row : row.date.valid /\ row.user # "")

\* userFirstSeen, as the entries of the Map in insertion order
RECURSIVE userFirstSeen(_, _)
userFirstSeen(rows, map) ==
    IF rows = <<>> THEN map
    ELSE LET row == Head(rows)
             has == \E k \in 1..Len(map) : map[k].user = row.user
         IN  userFirstSeen(Tail(rows),
                 IF ~has THEN Append(map, [user |-> row.user, date |-> row.date])
                 ELSE [k \in 1..Len(map) |->
                          IF map[k].user = row.user /\ row.date.time < map[k].date.time
                          THEN [user |-> row.user, date |-> row.date]
                          ELSE map[k]])

\* the cohort key YYYY-MM, kept as its year and its month (1..12)
cohortKey(firstDate, zone) ==
    [year |-> getFullYear(firstDate, zone), month |-> getMonth(firstDate, zone) + 1]

\* the order of the keys as strings, the years having four digits
KeyBefore(a, b) == a.year * 12 + a.month < b.year * 12 + b.month
RECURSIVE sortedKeys(_)
sortedKeys(keys) ==
    IF keys = {} THEN <<>>
    ELSE LET first == CHOOSE a \in keys : \A b \in keys \ {a} : KeyBefore(a, b)
         IN  <<first>> \o sortedKeys(keys \ {first})

\* the twelve entries of one cohort
cohortRetention(key, cohortUsers, rows, zone) ==
    LET cohortDate == DateAt(MakeDay(key.year, key.month, 1))
        cohortSize == Cardinality(cohortUsers)
        entry(period) ==
            LET periodDate == setMonth(cohortDate, getMonth(cohortDate, zone) + period, zone)
                periodEndDate == setMonth(periodDate, getMonth(periodDate, zone) + 1, zone)
                activeUsers == Cardinality({user \in cohortUsers :
                    \E i \in 1..Len(rows) :
                        /\ rows[i].user = user
                        /\ rows[i].date.time >= periodDate.time
                        /\ rows[i].date.time < periodEndDate.time})
            IN  [cohort |-> key, period |-> period, users |-> activeUsers,
                 retention |-> IF cohortSize > 0 THEN Q(100 * activeUsers, cohortSize)
                               ELSE QInt(0),
                 size |-> cohortSize]
    IN  [p \in 1..12 |-> entry(p - 1)]

\* the value performCohortAnalysis gives to setCohortData
performCohortAnalysis(D, run, zone) ==
    IF cohortThrows(D, run) THEN <<>>
    ELSE LET rows == parsedData(D, run)
             firstSeen == userFirstSeen(rows, <<>>)
             keyOf(k) == cohortKey(firstSeen[k].date, zone)
             cohorts == {keyOf(k) : k \in 1..Len(firstSeen)}
             usersOf(key) ==
                 {firstSeen[k].user : k \in {j \in 1..Len(firstSeen) : keyOf(j) = key}}
         IN  IF rows = <<>> THEN <<>>
             ELSE FlatMap(sortedKeys(cohorts),
                          LAMBDA key : cohortRetention(key, usersOf(key), rows, zone))

\* the effect of [userColumn, dateColumn], with the values of the render
\* that follows the change
CohortEffect(u, d) ==
    IF u # "" /\ d # "" /\ Len(cohData) > 0
    THEN /\ cohortStarted < MaxCohortRuns
         /\ cohortAnalyzing' = TRUE
         /\ cohortRuns' = Append(cohortRuns, CohortRun(u, d))
         /\ cohortStarted' = cohortStarted + 1
    ELSE UNCHANGED <<cohortAnalyzing, cohortRuns, cohortStarted>>

SetUserColumn(col) ==
    /\ col # userColumn
    /\ userColumn' = col
    /\ CohortEffect(col, dateColumn)
    /\ UNCHANGED <<cohData, timeZone, dateColumn, cohortData, nonCohortVars>>

SetDateColumn(col) ==
    /\ col # dateColumn
    /\ dateColumn' = col
    /\ CohortEffect(userColumn, col)
    /\ UNCHANGED <<cohData, timeZone, userColumn, cohortData, nonCohortVars>>

\* the Run Analysis button
RunCohortAnalysis ==
    /\ userColumn # "" /\ dateColumn # "" /\ ~cohortAnalyzing
    /\ cohortStarted < MaxCohortRuns
    /\ cohortAnalyzing' = TRUE
    /\ cohortRuns' = Append(cohortRuns, CohortRun(userColumn, dateColumn))
    /\ cohortStarted' = cohortStarted + 1
    /\ UNCHANGED <<cohData, timeZone, userColumn, dateColumn, cohortData, nonCohortVars>>

\* the timer of the oldest call fires: the rest of performCohortAnalysis runs
CohortCompletes ==
    /\ cohortRuns # <<>>
    /\ cohortData' = performCohortAnalysis(cohData, Head(cohortRuns), timeZone)
    /\ cohortAnalyzing' = FALSE
    /\ cohortRuns' = Tail(cohortRuns)
    /\ UNCHANGED <<cohData, timeZone, userColumn, dateColumn, cohortStarted,
                   nonCohortVars>>

SeqToSet(s) == {s[j] : j \in 1..Len(s)}

UserCells == {"", "ann", "bob"}
CohortDateCells == {"x", "2024-01-15", "2024-03-02"}
CohortRows ==
    {[user_id |-> u, signup |-> d] : u \in UserCells, d \in CohortDateCells}
    \cup {[user_id |-> u, date |-> d] : u \in UserCells, d \in CohortDateCells}
    \cup {[user_id |-> u, user |-> "zoe", signup |-> d] :
               u \in UserCells, d \in CohortDateCells}
\* the rows of one file have the same columns
CohortDatasets ==
    {D \in UNION {[1..len -> CohortRows] : len \in 1..MaxCohortRows} :
        \A i \in 1..Len(D) : DOMAIN D[i] = DOMAIN D[1]}
TimeZones == {0, 1}

InitCohort ==
    /\ cohData \in CohortDatasets
    /\ timeZone \in TimeZones
    /\ userColumn = ""
    /\ dateColumn = ""
    /\ cohortData = <<>>
    /\ cohortAnalyzing = FALSE
    /\ cohortRuns = <<>>
    /\ cohortStarted = 0
    /\ heap = <<>>
    /\ NothingUploaded
    /\ dedupeRun = <<>>
    /\ NoAnalysis
    /\ NoRegression
    /\ NoCalls

NextCohort ==
    \/ \E col \in SeqToSet(userColumns(cohData)) : SetUserColumn(col)
    \/ \E col \in SeqToSet(dateColumns(cohData)) : SetDateColumn(col)
    \/ RunCohortAnalysis
    \/ CohortCompletes

SpecCohort == InitCohort /\ [][NextCohort]_vars

\* every component of the page is idle
AppIdle ==
    /\ heap = <<>>
    /\ NothingUploaded
    /\ dedupeRun = <<>>
    /\ NoAnalysis
    /\ NoRegression
    /\ NoCohort

\* performSimpleLinearRegression of b on a
FitXCells == {"1", "2", "3", "4"}
FitYCells == {"", "2", "4", "6"}
FitRows == {[a |-> x, b |-> y] : x \in FitXCells, y \in FitYCells}
FitDatasets == UNION {[1..len -> FitRows] : len \in 1..MaxFitRows}
FitSelection == Selection("b", <<"a">>, "linear")

CallSimpleLinearRegression ==
    /\ fitResult.state = "idle"
    /\ fitResult' =
          IF Len(regressionPairs(fitData, FitSelection)) < 2
          THEN [state |-> "threw", model |-> None]
          ELSE [state |-> "returned",
                model |-> Some(performSimpleLinearRegression(fitData, FitSelection))]
    /\ UNCHANGED <<appVars, fitData, outlierVars, classVars, corrVars, forecastVars, clusterVars>>

InitFit ==
    /\ AppIdle
    /\ ClusterIdle
    /\ ForecastIdle
    /\ CorrIdle
    /\ fitData \in FitDatasets
    /\ fitResult = NotCalled
    /\ OutlierIdle
    /\ ClassIdle

NextFit == CallSimpleLinearRegression

SpecFit == InitFit /\ [][NextFit]_vars

\* detectOutliers on the column a
OutlierCells == {"", "1", "2", "3", "4", "100"}
OutlierDatasets == DatasetsOver(1, OutlierCells, MaxOutlierRows)

CallDetectOutliers ==
    /\ outlierResult = None
    /\ outlierResult' = Some(detectOutliers(outlierData, "a"))
    /\ UNCHANGED <<appVars, outlierData, fitVars, classVars, corrVars, forecastVars, clusterVars>>

InitOutliers ==
    /\ AppIdle
    /\ ClusterIdle
    /\ ForecastIdle
    /\ CorrIdle
    /\ FitIdle
    /\ outlierData \in OutlierDatasets
    /\ outlierResult = None
    /\ ClassIdle

NextOutliers == CallDetectOutliers

SpecOutliers == InitOutliers /\ [][NextOutliers]_vars

(***************************************************************************)
(* The column classifiers of the components, each applied to column a of   *)
(* the same data.                                                          *)
(***************************************************************************)
\* data.slice(0, 10).map(row => row[column])
SampleOf(D, column) == Column(SubSeq(D, 1, Min(10, Len(D))), column)

\* DataPreview.getColumnType
getColumnType(D, column) ==
    LET sample == SelectSeq(SampleOf(D, column), NonEmpty)
        numericCount == Len(SelectSeq(sample, NumberOk))
        dateCount == Len(SelectSeq(sample, DateParseOk))
    IN  IF Len(sample) = 0 THEN "text"
        \* numericCount > sample.length * 0.8
        ELSE IF 5 * numericCount > 4 * Len(sample) THEN "numeric"
        \* dateCount > sample.length * 0.6
        ELSE IF 5 * dateCount > 3 * Len(sample) THEN "date"
        ELSE "text"

\* AIInsights.getNumericColumns
insightsNumericColumns(D, columns) ==
    SelectSeq(columns, LAMBDA col :
        LET sample == SelectSeq(SampleOf(D, col), NonEmpty)
            numericCount == Len(SelectSeq(sample, NumberOk))
        IN  5 * numericCount > 4 * Len(sample))

\* PredictiveAnalytics.numericColumns: the sample keeps the empty cells
\* (val != null), and every() of an empty sample is true
forecastNumericColumns(D) ==
    IF D = <<>> THEN <<>>
    ELSE SelectSeq(Keys(D[1]), LAMBDA col :
            LET sample == SampleOf(D, col)
            IN  \A i \in 1..Len(sample) : NumberOk(sample[i]))

\* ClusterAnalysis.numericColumns
clusterNumericColumns(D) ==
    IF D = <<>> THEN <<>>
    ELSE SelectSeq(Keys(D[1]), LAMBDA col :
            LET sample == SampleOf(D, col)
            IN  \A i \in 1..Len(sample) : NumberOk(sample[i]))

InSeq(x, s) == \E i \in 1..Len(s) : s[i] = x

ClassCells == {"", "1", "x"}
ClassDatasets ==
    UNION {[1..len -> RowsOver(1, ClassCells)] : len \in 1..MaxClassRows}

CallClassifiers ==
    /\ classResult = None
    /\ classResult' = Some(
          [preview |-> getColumnType(classData, "a"),
           scanner |-> InSeq("a", getNumericColumns(classData, Keys(classData[1]))),
           insights |-> InSeq("a", insightsNumericColumns(classData, Keys(classData[1]))),
           regression |-> InSeq("a", numericColumns(classData)),
           forecasting |-> InSeq("a", forecastNumericColumns(classData)),
           clustering |-> InSeq("a", clusterNumericColumns(classData))])
    /\ UNCHANGED <<appVars, classData, fitVars, outlierVars, corrVars, forecastVars, clusterVars>>

InitClassify ==
    /\ AppIdle
    /\ ClusterIdle
    /\ ForecastIdle
    /\ CorrIdle
    /\ FitIdle
    /\ OutlierIdle
    /\ classData \in ClassDatasets
    /\ classResult = None

NextClassify == CallClassifiers

SpecClassify == InitClassify /\ [][NextClassify]_vars

(***************************************************************************)
(* The three correlation functions, applied to the same pairs of columns   *)
(***************************************************************************)
\* AIInsights.calculateCorrelation
insightsCalculateCorrelation(D, col1, col2) ==
    LET rows == SelectSeq(D, LAMBDA row : ParseFloatOk(row[col1]) /\ ParseFloatOk(row[col2]))
        xs == [i \in 1..Len(rows) |-> ParseFloat(rows[i][col1])]
        ys == [i \in 1..Len(rows) |-> ParseFloat(rows[i][col2])]
        n == Len(rows)
        sumX == SumSeq(xs)
        sumY == SumSeq(ys)
        sumXY == SumSeq([i \in 1..n |-> xs[i] * ys[i]])
        sumX2 == SumSeq([i \in 1..n |-> xs[i] * xs[i]])
        sumY2 == SumSeq([i \in 1..n |-> ys[i] * ys[i]])
        numerator == n * sumXY - sumX * sumY
        denominator2 == (n * sumX2 - sumX * sumX) * (n * sumY2 - sumY * sumY)
    IN  IF n < 2 \/ denominator2 = 0
        THEN [sign |-> 0, num |-> 0, den |-> 1]
        ELSE [sign |-> Sign(numerator), num |-> numerator * numerator, den |-> denominator2]

\* SmartChartRecommendations.calculateCorrelation
chartCalculateCorrelation(D, col1, col2) ==
    LET rows == SelectSeq(D, LAMBDA row : ParseFloatOk(row[col1]) /\ ParseFloatOk(row[col2]))
        xs == [i \in 1..Len(rows) |-> ParseFloat(rows[i][col1])]
        ys == [i \in 1..Len(rows) |-> ParseFloat(rows[i][col2])]
        n == Len(rows)
        sumX == SumSeq(xs)
        sumY == SumSeq(ys)
        sumXY == SumSeq([i \in 1..n |-> xs[i] * ys[i]])
        sumX2 == SumSeq([i \in 1..n |-> xs[i] * xs[i]])
        sumY2 == SumSeq([i \in 1..n |-> ys[i] * ys[i]])
        numerator == n * sumXY - sumX * sumY
        denominator2 == (n * sumX2 - sumX * sumX) * (n * sumY2 - sumY * sumY)
    IN  IF n < 2 \/ denominator2 = 0
        THEN [sign |-> 0, num |-> 0, den |-> 1]
        ELSE [sign |-> Sign(numerator), num |-> numerator * numerator, den |-> denominator2]

CorrCells == {"", "1", "2", "3"}
CorrDatasets ==
    UNION {[1..len -> RowsOver(2, CorrCells)] : len \in 1..MaxCorrRows}

\* one implementation on the pairs (a, b), (b, a), (a, a) and (b, b)
CorrelationsBy(F(_, _, _)) ==
    [ab |-> F(corrData, "a", "b"), ba |-> F(corrData, "b", "a"),
     aa |-> F(corrData, "a", "a"), bb |-> F(corrData, "b", "b")]

CallCorrelations ==
    /\ corrResult = None
    /\ corrResult' = Some(
          [statistics |-> CorrelationsBy(calculatePearsonCorrelation),
           insights |-> CorrelationsBy(insightsCalculateCorrelation),
           charts |-> CorrelationsBy(chartCalculateCorrelation)])
    /\ UNCHANGED <<appVars, corrData, fitVars, outlierVars, classVars, forecastVars, clusterVars>>

InitCorrelations ==
    /\ AppIdle
    /\ ClusterIdle
    /\ ForecastIdle
    /\ FitIdle
    /\ OutlierIdle
    /\ ClassIdle
    /\ corrData \in CorrDatasets
    /\ corrResult = None

NextCorrelations == CallCorrelations

SpecCorrelations == InitCorrelations /\ [][NextCorrelations]_vars

(***************************************************************************)
(* PredictiveAnalytics: the four forecasting methods on the column a.  A   *)
(* predicted value is [defined, value]: undefined is what reading past the *)
(* end of an array gives.                                                  *)
(***************************************************************************)
Defined(q) == [defined |-> TRUE, value |-> q]
Undefined == [defined |-> FALSE, value |-> QNaN]
QMin(a, b) == QNeg(QMax(<<QNeg(a), QNeg(b)>>))

\* data.map(row => parseFloat(row[selectedColumn])).filter(val => !isNaN(val))
forecastValues(D, selectedColumn) ==
    LET parsed == SelectSeq(Column(D, selectedColumn), ParseFloatOk)
    IN  [i \in 1..Len(parsed) |-> ParseFloat(parsed[i])]

\* Array.from({length: 10}, (_, i) => ...), i = 0..9
ForecastPoints(F(_)) == [k \in 1..10 |-> F(k - 1)]

performLinearRegression(D, selectedColumn) ==
    LET indices == SelectSeq([i \in 1..Len(D) |-> i],
                             LAMBDA i : ParseFloatOk(D[i][selectedColumn]))
        n == Len(indices)
        xs == [k \in 1..n |-> indices[k] - 1]
        ys == [k \in 1..n |-> ParseFloat(D[indices[k]][selectedColumn])]
        sumX == SumSeq(xs)
        sumY == SumSeq(ys)
        sumXY == SumSeq([k \in 1..n |-> xs[k] * ys[k]])
        sumX2 == SumSeq([k \in 1..n |-> xs[k] * xs[k]])
        slope == QDiv(QInt(n * sumXY - sumX * sumY), QInt(n * sumX2 - sumX * sumX))
        intercept == QDiv(QSub(QInt(sumY), QMul(slope, QInt(sumX))), QInt(n))
        accuracy == QMin(QInt(95),
                         QMax(<<QInt(70), QSub(QInt(90), QMul(QAbs(slope), QInt(10)))>>))
        point(i) == [index |-> n + i,
                     predicted |-> Defined(QAdd(QMul(slope, QInt(n + i)), intercept)),
                     confidence |-> QMax(<<QInt(60), QInt(95 - i * 2)>>)]
    IN  [method |-> "Linear Regression",
         confidence |-> accuracy,
         forecast |-> ForecastPoints(point),
         accuracy |-> accuracy,
         trend |-> IF QGt(slope, QInt(0)) THEN "increasing"
                   ELSE IF QGt(QInt(0), slope) THEN "decreasing" ELSE "stable"]

\* values.slice(-window): the last window values, and all of them when
\* window is 0
LastValues(values, window) ==
    IF window = 0 THEN values
    ELSE SubSeq(values, Len(values) - window + 1, Len(values))

\* performMovingAverage with a confidence that rises with the steps ahead
performMovingAverage_risingConfidence(D, selectedColumn, random) ==
    LET values == forecastValues(D, selectedColumn)
        window == Min(5, Len(values) \div 3)
        movingAvg == QDiv(QInt(SumSeq(LastValues(values, window))), QInt(window))
        point(i) ==
            [index |-> Len(values) + i,
             predicted |-> Defined(QAdd(movingAvg,
                 QMul(QMul(QSub(random[i + 1], Q(1, 2)), movingAvg), Q(1, 10)))),
             confidence |-> QMax(<<QInt(50), QInt(80 + i * 3)>>)]
    IN  [method |-> "Moving Average",
         confidence |-> QInt(75),
         forecast |-> ForecastPoints(point),
         accuracy |-> QInt(75),
         trend |-> "stable"]

\* random[i + 1] is the value Math.random() returns for the point i
performMovingAverage(D, selectedColumn, random) ==
    LET values == forecastValues(D, selectedColumn)
        window == Min(5, Len(values) \div 3)
        movingAvg == QDiv(QInt(SumSeq(LastValues(values, window))), QInt(window))
        point(i) ==
            [index |-> Len(values) + i,
             predicted |-> Defined(QAdd(movingAvg,
                 QMul(QMul(QSub(random[i + 1], Q(1, 2)), movingAvg), Q(1, 10)))),
             confidence |-> QMax(<<QInt(50), QInt(80 - i * 3)>>)]
    IN  [method |-> "Moving Average",
         confidence |-> QInt(75),
         forecast |-> ForecastPoints(point),
         accuracy |-> QInt(75),
         trend |-> "stable"]

\* smoothed after the loop, times 10^(n - 1): alpha is 3/10
RECURSIVE SmoothedScaled(_, _)
SmoothedScaled(values, n) ==
    IF n = 1 THEN values[1]
    ELSE 3 * values[n] * Pow(10, n - 2) + 7 * SmoothedScaled(values, n - 1)

performExponentialSmoothing(D, selectedColumn) ==
    LET values == forecastValues(D, selectedColumn)
        n == Len(values)
        smoothed == IF n = 0 THEN Undefined
                    ELSE Defined(Q(SmoothedScaled(values, n), Pow(10, n - 1)))
        point(i) == [index |-> n + i,
                     predicted |-> smoothed,
                     \* Math.max(60, 85 - i * 2.5)
                     confidence |-> QMax(<<QInt(60), Q(170 - i * 5, 2)>>)]
    IN  [method |-> "Exponential Smoothing",
         confidence |-> QInt(82),
         forecast |-> ForecastPoints(point),
         accuracy |-> QInt(82),
         trend |-> "stable"]

\* the mean of values[i], values[i + seasonLength], ... (i from 0)
seasonalMean(values, i, seasonLength) ==
    LET seasonalValues == SelectSeq([j \in 1..Len(values) |-> j],
                              LAMBDA j : j - 1 >= i /\ (j - 1 - i) % seasonLength = 0)
    IN  QDiv(QInt(SumSeq([k \in 1..Len(seasonalValues) |-> values[seasonalValues[k]]])),
             QInt(Len(seasonalValues)))

performSeasonalAnalysis(D, selectedColumn) ==
    LET values == forecastValues(D, selectedColumn)
        seasonLength == Min(12, Len(values) \div 4)
        seasonalPattern == [k \in 1..seasonLength |->
                               seasonalMean(values, k - 1, seasonLength)]
        \* seasonalPattern[i % seasonLength]; i % 0 is NaN and reads nothing
        point(i) == [index |-> Len(values) + i,
                     predicted |-> IF seasonLength = 0 THEN Undefined
                                   ELSE Defined(seasonalPattern[(i % seasonLength) + 1]),
                     confidence |-> QMax(<<QInt(65), QInt(88 - i * 2)>>)]
    IN  IF Len(values) < seasonLength * 2
        THEN [method |-> "Seasonal Analysis", confidence |-> QInt(0), forecast |-> <<>>,
              accuracy |-> QInt(0), trend |-> "insufficient_data"]
        ELSE [method |-> "Seasonal Analysis", confidence |-> QInt(78),
              forecast |-> ForecastPoints(point), accuracy |-> QInt(78),
              trend |-> "seasonal"]

ForecastCells == {"", "1", "2"}
ForecastDatasets == DatasetsOver(1, ForecastCells, MaxForecastRows)
\* what Math.random() returns for the ten points of one call
RandomDraws ==
    {[k \in 1..10 |-> Q(0, 1)], [k \in 1..10 |-> Q(1, 2)],
     [k \in 1..10 |-> IF k % 2 = 0 THEN Q(1, 4) ELSE Q(3, 4)]}

\* runPredictiveAnalysis with the method "all", after its delay
CallForecasts ==
    /\ forecastResult = None
    /\ \E random \in RandomDraws :
          forecastResult' = Some(
              [linear |-> performLinearRegression(forecastData, "a"),
               moving_average |-> performMovingAverage(forecastData, "a", random),
               exponential |-> performExponentialSmoothing(forecastData, "a"),
               seasonal |-> performSeasonalAnalysis(forecastData, "a")])
    /\ UNCHANGED <<appVars, forecastData, fitVars, outlierVars, classVars, corrVars, clusterVars>>

InitForecasts ==
    /\ AppIdle
    /\ ClusterIdle
    /\ FitIdle
    /\ OutlierIdle
    /\ ClassIdle
    /\ CorrIdle
    /\ forecastData \in ForecastDatasets
    /\ forecastResult = None

NextForecasts == CallForecasts

SpecForecasts == InitForecasts /\ [][NextForecasts]_vars

(***************************************************************************)
(* ClusterAnalysis: one run of performKMeansClustering on the columns a    *)
(* and b, one loop iteration per step.  A distance is kept as the number   *)
(* under its square root; labels are the 0-based cluster indices.          *)
(***************************************************************************)
maxIterations == 100
clusterColumns == <<"a", "b">>      \* selectedColumns

\* parseFloat(row[col]) || 0
coordinate(v) == IF ParseFloatOk(v) THEN QInt(ParseFloat(v)) ELSE QInt(0)

\* every coordinate is a number, so the filter keeps every row
clusterPoints(D) ==
    [i \in 1..Len(D) |-> [c \in 1..Len(clusterColumns) |->
                              coordinate(D[i][clusterColumns[c]])]]

euclideanDistance(point1, point2) ==
    QSqrt(QSum([i \in 1..Len(point1) |-> QSquare(QSub(point1[i], point2[i]))]))

\* distance < minDistance, and distance ** 2
RootLess(r1, r2) == QGt(r2.of, r1.of)
RootSquared(r) == r.of

\* the square root itself, for the numbers that have a rational one
ISqrt(x) == CHOOSE r \in 0..x : r * r = x
RootValue(r) ==
    IF r.of.d = 0 THEN r.of ELSE Q(ISqrt(r.of.n), ISqrt(r.of.d))

\* the scan for (let j = 0; j < k; j++) from the cluster j on
RECURSIVE nearestCluster(_, _, _, _, _)
nearestCluster(point, centroids, j, minDistance, bestCluster) ==
    IF j = Len(centroids) THEN bestCluster
    ELSE LET distance == euclideanDistance(point, centroids[j + 1])
         IN  IF RootLess(distance, minDistance)
             THEN nearestCluster(point, centroids, j + 1, distance, j)
             ELSE nearestCluster(point, centroids, j + 1, minDistance, bestCluster)

\* Assign points to nearest centroid
assignLabels(points, centroids) ==
    [i \in 1..Len(points) |->
        nearestCluster(points[i], centroids, 0, QSqrt(Q(1, 0)), 0)]

\* points.filter((_, i) => labels[i] === j)
pointsOfCluster(points, labels, j) ==
    LET members == SelectSeq([i \in 1..Len(points) |-> i], LAMBDA i : labels[i] = j)
    IN  [m \in 1..Len(members) |-> points[members[m]]]

\* clusterMean with the first point of the cluster for its mean
clusterMean_firstPoint(clusterPoints_) ==
    clusterPoints_[1]

clusterMean(clusterPoints_) ==
    [dim \in 1..Len(clusterColumns) |->
        QDiv(QSum([m \in 1..Len(clusterPoints_) |-> clusterPoints_[m][dim]]),
             QInt(Len(clusterPoints_)))]

\* Update centroids
updateCentroids(points, labels, centroids) ==
    [c \in 1..Len(centroids) |->
        LET clusterPoints_ == pointsOfCluster(points, labels, c - 1)
        IN  IF Len(clusterPoints_) > 0 THEN clusterMean(clusterPoints_)
            ELSE centroids[c]]

\* within-cluster sum of squares
inertiaOf(points, labels, centroids) ==
    QSum([i \in 1..Len(points) |->
             RootSquared(euclideanDistance(points[i], centroids[labels[i] + 1]))])

\* sum of the distances from points[i] to the points of a sequence, over
\* their number
averageDistance(point, others) ==
    QDiv(QSum([m \in 1..Len(others) |-> RootValue(euclideanDistance(point, others[m]))]),
         QInt(Len(others)))

\* the scan for (let k = 0; k < centroids.length; k++) from the cluster k on
RECURSIVE nearestOtherCluster(_, _, _, _, _, _)
nearestOtherCluster(points, labels, i, kCount, k, minAvgDistance) ==
    IF k = kCount THEN minAvgDistance
    ELSE LET otherClusterPoints == pointsOfCluster(points, labels, k)
         IN  IF k # labels[i] /\ Len(otherClusterPoints) > 0
             THEN nearestOtherCluster(points, labels, i, kCount, k + 1,
                      QMin(minAvgDistance, averageDistance(points[i], otherClusterPoints)))
             ELSE nearestOtherCluster(points, labels, i, kCount, k + 1, minAvgDistance)

silhouetteOf(points, labels, centroids, i) ==
    LET others == SelectSeq([j \in 1..Len(points) |-> j],
                            LAMBDA j : labels[j] = labels[i] /\ j # i)
        sameClusterPoints == [m \in 1..Len(others) |-> points[others[m]]]
        a == IF Len(sameClusterPoints) > 0
             THEN averageDistance(points[i], sameClusterPoints)
             ELSE QInt(0)
        b == nearestOtherCluster(points, labels, i, Len(centroids), 0, Q(1, 0))
    IN  QDiv(QSub(b, a), QMax(<<a, b>>))

calculateSilhouetteScore(points, labels, centroids) ==
    IF Len(points) < 2 THEN QInt(0)
    ELSE QDiv(QSum([i \in 1..Len(points) |-> silhouetteOf(points, labels, centroids, i)]),
              QInt(Len(points)))

ClusterRows == {[a |-> x, b |-> y] : x \in {"", "3"}, y \in {"", "4"}}
ClusterDatasets == UNION {[1..len -> ClusterRows] : len \in 0..MaxClusterRows}
ClusterCounts == {2, 3}
\* where Math.random() * 100 puts a centroid
CentroidPlaces ==
    {<<QInt(2), QInt(0)>>, <<QInt(3), QInt(1)>>, <<QInt(50), QInt(50)>>}

\* performKMeansClustering up to the loop
KMeansStart ==
    /\ kmPhase = "idle"
    /\ LET points == clusterPoints(clusterData)
       IN  IF Len(points) = 0
           THEN /\ clusterResult' = Some([clusters |-> <<>>, centroids |-> <<>>,
                                          labels |-> <<>>, inertia |-> QInt(0),
                                          silhouetteScore |-> QInt(0)])
                /\ kmPhase' = "returned"
                /\ UNCHANGED <<kmCentroids, kmLabels, kmPrevLabels, kmIter>>
           ELSE /\ kmCentroids' \in [1..numClusters -> CentroidPlaces]
                /\ kmLabels' = [i \in 1..Len(points) |-> 0]
                /\ kmPrevLabels' = [i \in 1..Len(points) |-> 0]
                /\ kmIter' = 0
                /\ kmPhase' = "iterating"
                /\ UNCHANGED clusterResult
    /\ UNCHANGED <<appVars, clusterData, numClusters, fitVars, outlierVars, classVars,
                   corrVars, forecastVars>>

\* one turn of the loop: assign, update, check convergence
KMeansIteration ==
    /\ kmPhase = "iterating"
    /\ LET points == clusterPoints(clusterData)
           labels == assignLabels(points, kmCentroids)
       IN  /\ kmLabels' = labels
           /\ kmCentroids' = updateCentroids(points, labels, kmCentroids)
           /\ IF labels = kmPrevLabels
              THEN /\ kmPhase' = "stopped"
                   /\ UNCHANGED <<kmPrevLabels, kmIter>>
              ELSE /\ kmPrevLabels' = labels
                   /\ kmIter' = kmIter + 1
                   /\ kmPhase' = IF kmIter + 1 < maxIterations THEN "iterating"
                                 ELSE "stopped"
    /\ UNCHANGED <<appVars, clusterData, numClusters, clusterResult, fitVars, outlierVars,
                   classVars, corrVars, forecastVars>>

\* performKMeansClustering after the loop
KMeansReturn ==
    /\ kmPhase = "stopped"
    /\ LET points == clusterPoints(clusterData)
       IN  clusterResult' = Some(
               [clusters |-> [c \in 1..numClusters |->
                                 pointsOfCluster(points, kmLabels, c - 1)],
                centroids |-> kmCentroids,
                labels |-> kmLabels,
                inertia |-> inertiaOf(points, kmLabels, kmCentroids),
                silhouetteScore |-> calculateSilhouetteScore(points, kmLabels, kmCentroids)])
    /\ kmPhase' = "returned"
    /\ UNCHANGED <<appVars, clusterData, numClusters, kmCentroids, kmLabels, kmPrevLabels,
                   kmIter, fitVars, outlierVars, classVars, corrVars, forecastVars>>

InitKMeans ==
    /\ AppIdle
    /\ FitIdle
    /\ OutlierIdle
    /\ ClassIdle
    /\ CorrIdle
    /\ ForecastIdle
    /\ clusterData \in ClusterDatasets
    /\ numClusters \in ClusterCounts
    /\ kmPhase = "idle"
    /\ kmCentroids = <<>>
    /\ kmLabels = <<>>
    /\ kmPrevLabels = <<>>
    /\ kmIter = 0
    /\ clusterResult = None

NextKMeans ==
    \/ KMeansStart
    \/ KMeansIteration
    \/ KMeansReturn

SpecKMeans == InitKMeans /\ [][NextKMeans]_vars

(***************************************************************************)
(* Claims about the cleaning actions, checked under Spec                   *)
(***************************************************************************)
\* remove-missing is asked to run on a dataset none of whose rows survives
WouldEmpty ==
    /\ IsSome(uploadedData)
    /\ \A i \in 1..Len(Get(uploadedData)) : ~KeepsRow(heap[Get(uploadedData)[i]])

\* C1: no cleaning action hands an empty dataset to the host, and a
\* remove-missing that would delete every row is refused: the host's
\* cleaned dataset stays what it was, the error toast is shown and
\* isProcessing is false when the handler returns.
C1_CleaningNeverEmpties ==
    /\ [](IsSome(cleanedData) => Len(Get(cleanedData)) > 0)
    /\ [][(RemoveMissing /\ WouldEmpty) =>
            /\ cleanedData' = cleanedData
            /\ Deref(heap', Get(currentData')) = Deref(heap, Get(currentData))
            /\ toast' = ToastEmpty
            /\ isProcessing' = FALSE]_vars

\* a refusal that left an earlier auto-fixed dataset in place
C1_Witness ==
    /\ toast = ToastEmpty
    /\ IsSome(cleanedData)
    /\ WouldEmpty
    /\ ~isProcessing

\* C2: between an upload and the next reset, no step changes the uploaded
\* dataset: the same rows in the same order with the same cell values.
C2_UploadedNeverMutated ==
    [][(IsSome(uploadedData) /\ IsSome(uploadedData')) =>
          /\ uploadedData' = uploadedData
          /\ Deref(heap', Get(uploadedData')) = Deref(heap, Get(uploadedData))]_vars

\* an auto-fix has repaired a missing cell and delivered other rows
C2_Witness ==
    /\ toast = ToastFixed
    /\ IsSome(cleanedData)
    /\ \E i \in 1..Len(Uploaded) : \E c \in DOMAIN Uploaded[i] : Uploaded[i][c] = ""
    /\ \A i \in 1..Len(Get(cleanedData)) :
          \A c \in DOMAIN heap[Get(cleanedData)[i]] : heap[Get(cleanedData)[i]][c] # ""

\* C4: the scan reports rows - distinct rows as duplicateCount, and an
\* auto-fix that handles the duplicate issue removes exactly that many rows,
\* keeping the first occurrence of every distinct row.
ReportedDuplicates ==
    LET issues == Get(report).issues
        dups == SelectSeq(issues, LAMBDA issue : issue.type = "duplicate")
    IN  IF dups = <<>> THEN 0 ELSE dups[1].count

FirstOccurrences(D) ==
    SelectSeq(Ids(Len(D)), LAMBDA i : \A j \in 1..(i - 1) : D[j] # D[i])

C4_FixRemovesReportedDuplicates ==
    IsSome(report) =>
        /\ ReportedDuplicates = Len(Uploaded) - Cardinality({Uploaded[i] : i \in 1..Len(Uploaded)})
        /\ (toast = ToastFixed /\ IsSome(cleanedData) /\ ReportedDuplicates > 0) =>
              /\ Len(Uploaded) - Len(Get(cleanedData)) = ReportedDuplicates
              /\ Len(Get(cleanedData)) = Len(FirstOccurrences(Uploaded))

\* C5: every sub-score and the overall score are in 0..100, the overall
\* score is the rounded mean of the four, and a dataset without a missing
\* cell has completeness 100.
C5_ScoresInRange ==
    IsSome(report) =>
        LET h == Get(report).datasetHealth
        IN  /\ h.completeness \in 0..100
            /\ h.consistency \in 0..100
            /\ h.accuracy \in 0..100
            /\ h.validity \in 0..100
            /\ Get(report).overallScore \in 0..100
            /\ 4 * Get(report).overallScore - 2 <=
                   h.completeness + h.consistency + h.accuracy + h.validity
            /\ h.completeness + h.consistency + h.accuracy + h.validity <
                   4 * Get(report).overallScore + 2
            /\ (\A i \in 1..Len(Uploaded) : \A c \in DOMAIN Uploaded[i] : Uploaded[i][c] # "")
                   => h.completeness = 100

\* a report of a dataset with a missing cell whose validity is clamped
C5_Witness ==
    /\ IsSome(report)
    /\ Get(report).datasetHealth.completeness < 100
    /\ Get(report).datasetHealth.consistency > 95
    /\ Get(report).datasetHealth.validity = 100
    /\ Get(report).overallScore < 100

\* C6: an issue is auto-fixable exactly when its kind is missing or duplicate
C6_AutoFixableIffMissingOrDuplicate ==
    IsSome(report) =>
        \A k \in 1..Len(Get(report).issues) :
            Get(report).issues[k].autoFixable
                <=> Get(report).issues[k].type \in {"missing", "duplicate"}

(***************************************************************************)
(* Claims about the duplicate fix, checked under SpecDedupe                *)
(***************************************************************************)
\* C3: the duplicate fix applied to its own output returns the same rows
C3_DedupeIdempotent ==
    \A k \in 2..(Len(dedupeRun) - 1) :
        Deref(heap, dedupeRun[k + 1]) = Deref(heap, dedupeRun[k])

\* the fix has run twice on a dataset from which it dropped a row
C3_Witness ==
    /\ Len(dedupeRun) >= 3
    /\ Len(dedupeRun[2]) < Len(dedupeRun[1])
    /\ Len(dedupeRun[2]) > 1

(***************************************************************************)
(* Claims about StatisticalAnalysis, checked under SpecStat                *)
(***************************************************************************)
HasStatistics(col) == \E k \in 1..Len(statistics) : statistics[k].column = col

\* C7: analyzeData raises no exception, and once the effect has run every
\* column that has a value has its statistics entry, also when another
\* column has no value at all.
C7_ColumnsAnalyzedIndependently ==
    /\ saEffect # "crashed"
    /\ (saEffect = "done" /\ saData # <<>>) =>
          \A col \in DOMAIN saData[1] :
              ColumnValues(saData, col) # <<>> => HasStatistics(col)

StrongPairs ==
    LET cols == Keys(saData[1])
    IN  {p \in (1..Len(cols)) \X (1..Len(cols)) :
            /\ p[1] < p[2]
            /\ ColumnIsNumeric(saData, cols[p[1]])
            /\ ColumnIsNumeric(saData, cols[p[2]])
            /\ AbsAbove07(calculatePearsonCorrelation(saData, cols[p[1]], cols[p[2]]))}

StrongInsights == SelectSeq(insights, LAMBDA i : i.kind = "strong correlations")

\* C9: after a diagnostic or comprehensive run, the strong-correlation
\* insight is published exactly when the analysed dataset has a pair of
\* numeric columns with |r| > 0.7, and it counts the pairs of that dataset.
C9_InsightsFromSameRun ==
    (saEffect = "done" /\ saData # <<>> /\ saType \in {"diagnostic", "comprehensive"}) =>
        IF StrongPairs = {}
        THEN StrongInsights = <<>>
        ELSE /\ Len(StrongInsights) = 1
             /\ StrongInsights[1].count = Cardinality(StrongPairs)

(***************************************************************************)
(* Claims about the regression runs, checked under SpecRegression          *)
(***************************************************************************)
\* the model of a selection under its own regression type, None when the
\* data is insufficient for it
ModelOfRun(D, run) ==
    CASE run.regressionType = "linear" ->
            IF Len(regressionPairs(D, run)) < 2 THEN None
            ELSE Some(performSimpleLinearRegression(D, run))
      [] run.regressionType = "multiple" ->
            IF Len(regressionCleanData(D, run)) < Len(run.features) + 1 THEN None
            ELSE Some(performMultipleLinearRegression(D, run))
      [] run.regressionType = "polynomial" ->
            IF Len(regressionPairs(D, run)) < 3 THEN None
            ELSE Some(performPolynomialRegression(D, run))

\* C8: when a run completes, the published result is the model of the
\* selection that triggered the run, or null; it is never the model of an
\* earlier selection, whatever the type and the number of features.
C8_PublishedModelIsOfItsRun ==
    [][RegressionCompletes =>
          result' \in {None, ModelOfRun(regData, Head(regRuns))}]_vars

\* C10: at most one run is in flight, and no selection changes between the
\* start of a run and the publication of its result.
C10_RunsToCompletion ==
    /\ [](Len(regRuns) <= 1)
    /\ [][regRuns # <<>> =>
            /\ targetVariable' = targetVariable
            /\ features' = features
            /\ regressionType' = regressionType]_vars

\* the selection of the current render
CurrentSelection == Selection(targetVariable, features, regressionType)

\* C11: a run whose branch finds too few valid observations publishes
\* result = null and ends with isAnalyzing = false.
C11_InsufficientDataGivesNull ==
    [][(RegressionCompletes /\ regressionThrows(regData, Head(regRuns))) =>
          (result' = None /\ isAnalyzing' = FALSE)]_vars

\* two runs have completed and the second, made for the current selection
\* on a dataset of two rows or more, found too few valid observations
C11_Witness ==
    /\ regStarted = 2 /\ regRuns = <<>>
    /\ targetVariable # "" /\ features # <<>>
    /\ regressionThrows(regData, CurrentSelection)
    /\ Len(regData) >= 2
    /\ result = None /\ ~isAnalyzing

(***************************************************************************)
(* Claims about the simple regression, checked under SpecFit               *)
(***************************************************************************)
FitPairs == regressionPairs(fitData, FitSelection)
FitModel == Get(fitResult.model)

\* two of the pairs have distinct x values; the y values are not all equal
DistinctX == \E i, j \in 1..Len(FitPairs) : FitPairs[i].x # FitPairs[j].x
NonConstantY == \E i, j \in 1..Len(FitPairs) : FitPairs[i].y # FitPairs[j].y

\* the pairs lie on the line through the pairs i and j
OnLineThrough(i, j) ==
    \A k \in 1..Len(FitPairs) :
        (FitPairs[k].y - FitPairs[i].y) * (FitPairs[j].x - FitPairs[i].x)
            = (FitPairs[j].y - FitPairs[i].y) * (FitPairs[k].x - FitPairs[i].x)

AllResidualsZero ==
    \A k \in 1..Len(FitModel.predictions) :
        FitModel.predictions[k].residual = QInt(0)

OutlierValues ==
    LET parsed == SelectSeq(Column(outlierData, "a"), ParseFloatOk)
    IN  SortAsc([i \in 1..Len(parsed) |-> ParseFloat(parsed[i])])

\* twice the fences q1 - 1.5 iqr and q3 + 1.5 iqr
TwiceLowerFence ==
    LET n == Len(OutlierValues)
        q1 == OutlierValues[(n \div 4) + 1]
        q3 == OutlierValues[((3 * n) \div 4) + 1]
    IN  2 * q1 - 3 * (q3 - q1)
TwiceUpperFence ==
    LET n == Len(OutlierValues)
        q1 == OutlierValues[(n \div 4) + 1]
        q3 == OutlierValues[((3 * n) \div 4) + 1]
    IN  2 * q3 + 3 * (q3 - q1)

Occurrences(s, v) == Cardinality({i \in 1..Len(s) : s[i] = v})

\* C13: the detector returns exactly the values strictly outside the fences
\* q1 - 1.5 iqr and q3 + 1.5 iqr, each as often as the column holds it, and
\* no value inside them.
C13_OutliersAreOutsideFences ==
    (IsSome(outlierResult) /\ OutlierValues # <<>>) =>
        \A v \in {1, 2, 3, 4, 100} :
            Occurrences(Get(outlierResult), v) =
                IF 2 * v < TwiceLowerFence \/ 2 * v > TwiceUpperFence
                THEN Occurrences(OutlierValues, v)
                ELSE 0

\* the detector has run over x = [1, 2, 3, 4, 100] and returned [100]
C13_Witness ==
    /\ outlierData = <<[a |-> "1"], [a |-> "2"], [a |-> "3"], [a |-> "4"], [a |-> "100"]>>
    /\ outlierResult = Some(<<100>>)

(***************************************************************************)
(* Further claims about the statistics, checked under SpecStat             *)
(***************************************************************************)
\* C14: the histogram of a numeric column has 10 bins and counts every
\* numeric value of the column in one of them, the maximum included.
C14_HistogramCountsEveryValue ==
    (saEffect = "done" /\ saData # <<>>) =>
        \A k \in 1..Len(statistics) :
            statistics[k].type = "numeric" =>
                /\ Len(statistics[k].distribution) = 10
                /\ SumSeq(statistics[k].distribution)
                      = Len(ColumnNumericValues(saData, statistics[k].column))

\* the values with the highest count among the non-empty values of a column
MostFrequent(values) ==
    {v \in {values[i] : i \in 1..Len(values)} :
        \A w \in {values[i] : i \in 1..Len(values)} :
            ValueCount(values, v) >= ValueCount(values, w)}

\* C15: the mode of a categorical column has the highest count and, among
\* the values tied for it, is the one met first in row order.
C15_ModeIsFirstMostFrequent ==
    (saEffect = "done" /\ saData # <<>>) =>
        \A k \in 1..Len(statistics) :
            statistics[k].type = "categorical" =>
                LET values == ColumnValues(saData, statistics[k].column)
                    first == CHOOSE i \in 1..Len(values) :
                                /\ values[i] \in MostFrequent(values)
                                /\ \A j \in 1..(i - 1) : values[j] \notin MostFrequent(values)
                IN  statistics[k].mode = values[first]

NormalInsights == SelectSeq(insights, LAMBDA i : i.kind = "normal")

\* the numeric columns with a defined skewness and kurtosis inside the
\* bounds of the normality test
NormalColumns ==
    {k \in 1..Len(statistics) :
        /\ statistics[k].type = "numeric"
        /\ ~statistics[k].skewness.nan /\ ~statistics[k].kurtosis.nan
        /\ SkewAbsBelowHalf(statistics[k]) /\ KurtAbsBelow3(statistics[k])}

\* C16: a numeric column whose values are all equal has an undefined
\* skewness and kurtosis and is not counted among the columns that appear
\* normally distributed.
C16_UndefinedSkewnessIsNotZero ==
    (saEffect = "done" /\ saData # <<>>) =>
        /\ \A k \in 1..Len(statistics) :
              (statistics[k].type = "numeric" /\ statistics[k].std.num = 0) =>
                  (statistics[k].skewness.nan /\ statistics[k].kurtosis.nan)
        /\ saType \in {"prescriptive", "comprehensive"} =>
              IF NormalColumns = {} THEN NormalInsights = <<>>
              ELSE /\ Len(NormalInsights) = 1
                   /\ NormalInsights[1].count = Cardinality(NormalColumns)

(***************************************************************************)
(* Claims about the column classifiers, checked under SpecClassify         *)
(***************************************************************************)
\* the non-empty cells of the sample of column a, and those that convert
ClassSample == SelectSeq(SampleOf(classData, "a"), NonEmpty)
ClassNumeric == SelectSeq(ClassSample, NumberOk)

\* C17: a column is classified numeric by the preview, the scanner and the
\* insights whenever at least 80% of its sampled non-empty values convert to
\* a number, exactly 80% (4 of 5) included.
C17_EightyPercentIsNumeric ==
    (IsSome(classResult) /\ ClassSample # <<>>
        /\ 5 * Len(ClassNumeric) >= 4 * Len(ClassSample)) =>
            /\ Get(classResult).preview = "numeric"
            /\ Get(classResult).scanner
            /\ Get(classResult).insights

\* C18: in every classifier (preview, scanner, insights, regression,
\* forecasting, clustering) a column whose sample holds no non-empty value
\* is not classified numeric; the preview calls it text.
C18_EmptySampleIsNotNumeric ==
    (IsSome(classResult) /\ ClassSample = <<>>) =>
        /\ Get(classResult).preview = "text"
        /\ ~Get(classResult).scanner
        /\ ~Get(classResult).insights
        /\ ~Get(classResult).regression
        /\ ~Get(classResult).forecasting
        /\ ~Get(classResult).clustering

(***************************************************************************)
(* Claims about the cohorts, checked under SpecCohort.  The dates are read *)
(* as they are written in the cells.                                       *)
(***************************************************************************)
\* a call has run to its end and none is waiting: cohortData is its result
CohortDone == cohortStarted > 0 /\ cohortRuns = <<>>

\* the rows with a valid date and an id, and the entities they name
ValidRows ==
    {i \in 1..Len(cohData) :
        IsoDateOk(cohData[i][dateColumn]) /\ cohData[i][userColumn] # ""}
Entities == {cohData[i][userColumn] : i \in ValidRows}
MonthIndex(v) == IsoDate(v).year * 12 + IsoDate(v).month
KeyIndex(key) == key.year * 12 + key.month
RowsOf(e) == {i \in ValidRows : cohData[i][userColumn] = e}
\* the month of the earliest valid date of an entity
EarliestMonth(e) ==
    CHOOSE m \in {MonthIndex(cohData[i][dateColumn]) : i \in RowsOf(e)} :
        \A i \in RowsOf(e) : m <= MonthIndex(cohData[i][dateColumn])
MembersOf(key) == {e \in Entities : EarliestMonth(e) = KeyIndex(key)}
CohortsPublished == {cohortData[k].cohort : k \in 1..Len(cohortData)}
EntriesOf(key) == SelectSeq(cohortData, LAMBDA entry : entry.cohort = key)
RECURSIVE SumOfSizes(_)
SumOfSizes(keys) ==
    IF keys = {} THEN 0
    ELSE LET key == CHOOSE k \in keys : TRUE
         IN  EntriesOf(key)[1].size + SumOfSizes(keys \ {key})

\* C19: once the analysis has run, every entity with a row that has a valid
\* date and a non-empty id is in the cohort of the month of its earliest
\* valid date and in no other: the published cohorts are the months of the
\* earliest dates, each with the number of its entities as size, and the
\* sizes sum to the number of distinct entities.
C19_CohortIsMonthOfEarliestDate ==
    CohortDone =>
        /\ \A e \in Entities :
              \E key \in CohortsPublished : KeyIndex(key) = EarliestMonth(e)
        /\ \A k \in 1..Len(cohortData) :
              cohortData[k].size = Cardinality(MembersOf(cohortData[k].cohort))
        /\ SumOfSizes(CohortsPublished) = Cardinality(Entities)

\* C20: every published cohort has exactly 12 entries, periods 0..11 in
\* order; the entry of period p counts the members with a row dated in the
\* p-th month after the cohort month, and its retention is 100 * users /
\* size, so users <= size and 0 <= retention <= 100.
C20_RetentionPerPeriod ==
    CohortDone =>
        \A key \in CohortsPublished :
            LET entries == EntriesOf(key)
            IN  /\ Len(entries) = 12
                /\ \A p \in 0..11 :
                      LET entry == entries[p + 1]
                      IN  /\ entry.period = p
                          /\ entry.users = Cardinality({e \in MembersOf(key) :
                                 \E i \in RowsOf(e) :
                                    MonthIndex(cohData[i][dateColumn]) = KeyIndex(key) + p})
                          /\ entry.retention = Q(100 * entry.users, entry.size)
                          /\ entry.users <= entry.size
                          /\ 0 <= entry.retention.n
                          /\ entry.retention.n <= 100 * entry.retention.d

(***************************************************************************)
(* The standard error of the simple regression, checked under SpecFit      *)
(***************************************************************************)
\* C27: a simple regression that is accepted with n <= p = 2 observations
\* reports an undefined (NaN) standard error: sqrt(SSresidual / (n - p)) is
\* not computed with n - p <= 0.
C27_NoStandardErrorWithoutFreedom ==
    (fitResult.state = "returned" /\ Len(FitPairs) <= 2) =>
        QIsNaN(FitModel.standardError.of)

(***************************************************************************)
(* The dataset the host gives to the analysis components, checked under    *)
(* Spec                                                                    *)
(***************************************************************************)
\* the rows of a dataset of the host in a heap
RowsIn(h, data) == Deref(h, Get(data))
\* the output of the two cleaning actions on the uploaded rows alone
AutoFixOfUploaded ==
    LET st == autoFixIssues(Uploaded, Ids(Len(Uploaded)),
                            Some(generateQualityReport(Uploaded)))
    IN  Deref(st.heap, st.ids)
RemoveMissingOfUploaded == SelectSeq(Uploaded, KeepsRow)

\* C28: the current dataset is none after a reset, the uploaded dataset
\* after an upload, the auto-fix of the uploaded dataset after an auto-fix,
\* the uploaded rows without the incomplete ones after a remove-missing
\* that keeps a row, and what it was after a refused remove-missing or a
\* scan: cleaning actions replace one another and never accumulate.
C28_CurrentDatasetIsLatestCleaning ==
    [][/\ HandleReset => currentData' = None
       /\ (\E D \in UploadChoices : HandleFileUpload(D)) =>
              (currentData' = uploadedData' /\ IsSome(uploadedData'))
       /\ AutoFix => (IsSome(currentData')
                        /\ RowsIn(heap', currentData') = AutoFixOfUploaded)
       /\ RemoveMissing =>
              IF RemoveMissingOfUploaded # <<>>
              THEN IsSome(currentData')
                   /\ RowsIn(heap', currentData') = RemoveMissingOfUploaded
              ELSE RowsIn(heap', currentData') = RowsIn(heap, currentData)
       /\ (Rescan \/ ScanCompletes) =>
              RowsIn(heap', currentData') = RowsIn(heap, currentData)
       /\ (IsSome(uploadedData) /\ IsSome(uploadedData')) =>
              RowsIn(heap', uploadedData') = Uploaded]_vars

\* a remove-missing has succeeded after an auto-fix: the current dataset is
\* the uploaded one without its incomplete rows, with no cell rewritten
C28_Witness ==
    /\ IsSome(cleanedData)
    /\ toast = ToastRemoved
    /\ IsSome(report) /\ FixableIssues(report) # <<>>
    /\ RowsIn(heap, currentData) = RemoveMissingOfUploaded
    /\ RemoveMissingOfUploaded # Uploaded
    /\ RemoveMissingOfUploaded # AutoFixOfUploaded

(***************************************************************************)
(* isAnalyzing of the regression component, checked under SpecRegression   *)
(***************************************************************************)
\* C29: isAnalyzing is true exactly while a run has started and has not yet
\* published its result; the completion of one of two overlapping runs
\* leaves it true for the other.
C29_AnalyzingWhileRunPending ==
    isAnalyzing <=> (regRuns # <<>>)

(***************************************************************************)
(* The columns the cohort analysis reads, checked under SpecCohort         *)
(***************************************************************************)
\* the dataset cut down to the selected id and date columns, under names
\* that no column of a file has
SelectedOnly ==
    [i \in 1..Len(cohData) |->
        [user_id |-> cohData[i][userColumn], signup |-> cohData[i][dateColumn]]]

\* C30: once the analysis has run, its result is the result for the values
\* of the selected id column and the selected date column alone: no other
\* column of the dataset, one named user or date included, changes the id
\* or the date of a row.
C30_OnlySelectedColumnsAreRead ==
    CohortDone =>
        cohortData = performCohortAnalysis(SelectedOnly,
                                           CohortRun("user_id", "signup"), timeZone)

(***************************************************************************)
(* Claims about the correlation, checked under SpecCorrelations            *)
(***************************************************************************)
\* two coefficients are the same number; a coefficient is 1
SameCoefficient(r, q) == r.sign = q.sign /\ r.num * q.den = q.num * r.den
IsOne(r) == r.sign = 1 /\ r.num = r.den
\* the column has two valid values that differ
NotConstant(col) ==
    \E i, j \in 1..Len(corrData) :
        /\ ParseFloatOk(corrData[i][col]) /\ ParseFloatOk(corrData[j][col])
        /\ ParseFloat(corrData[i][col]) # ParseFloat(corrData[j][col])

\* C24: each implementation is symmetric, gives 1 for a column with itself
\* when the column has two valid values that differ, and the three give
\* the same coefficient for the same pair.
C24_CorrelationSymmetric ==
    IsSome(corrResult) =>
        LET r == Get(corrResult)
        IN  /\ \A impl \in {"statistics", "insights", "charts"} :
                  /\ SameCoefficient(r[impl].ab, r[impl].ba)
                  /\ NotConstant("a") => IsOne(r[impl].aa)
                  /\ NotConstant("b") => IsOne(r[impl].bb)
            /\ r.insights = r.statistics
            /\ r.charts = r.statistics

\* the three have run on a = 1, 2, 3 against b = 3, 2, 1 and returned -1 for
\* both orders and 1 for each column with itself
C24_Witness ==
    /\ corrData = <<[a |-> "1", b |-> "3"], [a |-> "2", b |-> "2"], [a |-> "3", b |-> "1"]>>
    /\ IsSome(corrResult)
    /\ Get(corrResult).statistics.ab.sign = -1
    /\ Get(corrResult).statistics.ab.num = Get(corrResult).statistics.ab.den
    /\ IsOne(Get(corrResult).charts.aa)
    /\ IsOne(Get(corrResult).insights.bb)

(***************************************************************************)
(* Claims about the forecasts, checked under SpecForecasts                 *)
(***************************************************************************)
ForecastMethods == {"linear", "moving_average", "exponential", "seasonal"}
ForecastSeries == forecastValues(forecastData, "a")
ReportsInsufficient(prediction) ==
    /\ prediction.trend = "insufficient_data"
    /\ prediction.confidence = QInt(0)
    /\ prediction.forecast = <<>>

\* C21: whatever the length of the series, a method that does not report
\* insufficient data returns exactly 10 forecast points, and the confidence
\* of a point is never above the confidence of the point before it.
C21_TenPointsWithFallingConfidence ==
    IsSome(forecastResult) =>
        \A m \in ForecastMethods :
            LET prediction == Get(forecastResult)[m]
            IN  ~ReportsInsufficient(prediction) =>
                    /\ Len(prediction.forecast) = 10
                    /\ \A k \in 1..9 :
                          /\ ~QIsNaN(prediction.forecast[k].confidence)
                          /\ ~QGt(prediction.forecast[k + 1].confidence,
                                  prediction.forecast[k].confidence)

\* the four methods have run on a series of three values, too short for a
\* season, and each returned ten points
C21_Witness ==
    /\ IsSome(forecastResult)
    /\ Len(ForecastSeries) = 3
    /\ \A m \in ForecastMethods : Len(Get(forecastResult)[m].forecast) = 10
    /\ Get(forecastResult).exponential.forecast[10].confidence = Q(125, 2)

\* the season length of the series, and the mean of its values at a phase
SeasonLength == Min(12, Len(ForecastSeries) \div 4)
PhaseValues(phase) ==
    {j \in 1..Len(ForecastSeries) : (j - 1) % SeasonLength = phase}
RECURSIVE SumOver(_)
SumOver(js) ==
    IF js = {} THEN 0
    ELSE LET j == CHOOSE k \in js : TRUE IN ForecastSeries[j] + SumOver(js \ {j})

\* C22: the seasonal method reports insufficient data whenever the series
\* does not hold two full seasons of length at least 1, which includes
\* every series of fewer than 4 values; each point it emits predicts the
\* defined mean of the values at the phase of the point.
C22_SeasonalNeedsTwoSeasons ==
    IsSome(forecastResult) =>
        LET prediction == Get(forecastResult).seasonal
        IN  /\ (SeasonLength < 1 \/ Len(ForecastSeries) < 2 * SeasonLength) =>
                  ReportsInsufficient(prediction)
            /\ \A k \in 1..Len(prediction.forecast) :
                  /\ prediction.forecast[k].predicted.defined
                  /\ SeasonLength >= 1
                  /\ prediction.forecast[k].predicted.value =
                        Q(SumOver(PhaseValues((k - 1) % SeasonLength)),
                          Cardinality(PhaseValues((k - 1) % SeasonLength)))

(***************************************************************************)
(* Claims about the k-means run, checked under SpecKMeans                  *)
(***************************************************************************)
KmPoints == clusterPoints(clusterData)
Inertia == inertiaOf(KmPoints, kmLabels, kmCentroids)
InertiaAfter == inertiaOf(KmPoints, kmLabels', kmCentroids')

\* C23: from the state after one iteration of the k-means loop to the state
\* after the next, the inertia (the sum of the squared distances from each
\* point to the centroid of its cluster) never increases.
C23_InertiaNeverIncreases ==
    [][(KMeansIteration /\ kmIter >= 1) => ~QGt(InertiaAfter, Inertia)]_vars

\* a run that went through the loop at least three times and returned a
\* positive inertia
C23_Witness ==
    /\ IsSome(clusterResult)
    /\ kmIter >= 2
    /\ QGt(Get(clusterResult).inertia, QInt(0))

\* C25: when the loop stops before maxIterations on unchanged assignments,
\* every label is the lowest index of a nearest centroid among the final
\* centroids, the centroid of a non-empty cluster is the mean of its
\* points, and the centroid of an empty cluster is the one of before.
C25_StopsAtFixedPoint ==
    [][(KMeansIteration /\ kmPhase' = "stopped" /\ kmIter' < maxIterations) =>
          /\ kmLabels' = assignLabels(KmPoints, kmCentroids')
          /\ \A c \in 1..numClusters :
                LET members == pointsOfCluster(KmPoints, kmLabels', c - 1)
                IN  IF Len(members) > 0
                    THEN kmCentroids'[c] = clusterMean(members)
                    ELSE kmCentroids'[c] = kmCentroids[c]]_vars

\* C26: the silhouette score returned for two points or more is a number
\* between -1 and 1, whatever the sizes of the clusters.
C26_SilhouetteDefined ==
    (IsSome(clusterResult) /\ Len(KmPoints) >= 2) =>
        LET score == Get(clusterResult).silhouetteScore
        IN  /\ ~QIsNaN(score)
            /\ ~QGt(score, QInt(1))
            /\ ~QGt(QInt(-1), score)

====
